---------------------------- MODULE Spec2Model ----------------------------
(***************************************************************************)
(* A model of the bitchat mesh node: the retry scheduler                   *)
(* (internal/service, RetryService), the packet router (pkg/mesh, Router), *)
(* the mesh kernel (internal/bluetooth, BluetoothMeshService), the         *)
(* encryption service's key store and the Linux mesh provider.             *)
(*                                                                         *)
(* Each subsystem has its own specifications (SpecRetry, SpecRetryLoops,   *)
(* SpecRetryReAdd, SpecBackoff, SpecRouter, SpecMesh, SpecMeshStop,        *)
(* SpecCache, SpecDelegate, SpecFragSend, SpecFragments, SpecCodec,        *)
(* SpecSignedRelay, SpecExchange, SpecBlock, SpecKeyExchange, SpecLeave,   *)
(* SpecDedup, SpecTable, SpecSet, SpecKeys, SpecProvider); the variables   *)
(* of the other subsystems stay unchanged.                                 *)
(***************************************************************************)
EXTENDS Integers, Sequences, FiniteSets, TLC

(***************************************************************************)
(* Bounds of the model.                                                    *)
(***************************************************************************)
\* RetryConfig.MaxRetries of the modelled configuration.
MaxRetries == 2
\* RetryConfig.InitialBackoff, MaxBackoff and MaxRetryTime, in clock units.
InitialBackoff == 1
MaxBackoff == 2
MaxRetryTime == 4
\* Number of entries ever added to the retry service.
MaxAdds == 1
\* Number of entries ever added to a retry service that is handed an id
\* again after its entry was completed.
MaxReAdds == 2
\* Number of times Start of the retry service is called.
MaxLoops == 3
\* The largest RetryConfig.MaxRetries of the configurations the backoff
\* schedule is computed under.
MaxConfiguredRetries == 5

\* RetryConfig.BackoffFactor (1.5) as a fraction.
BackoffFactorNum == 3
BackoffFactorDen == 2

\* The largest TTL of a packet handed to the router or the mesh kernel.
MaxPacketTTL == 2
\* Number of packets the transport delivers to the mesh kernel.
MaxInject == 2
\* Capacity of the kernel's incoming and outgoing channels in the model.
QueueCap == 2
\* Number of times the mesh service is started.
MaxStarts == 1

\* sendDeliveryAck: the TTL of an acknowledgement.
AckTTL == 7
\* generateCoverTraffic: the TTL of a cover-traffic announce.
CoverTTL == 1
\* DefaultMessageCacheTTL (5 min) and the peer inactivity threshold of
\* cleanupInactivePeers (10 min), in units of 5 min.
DefaultMessageCacheTTL == 1
PeerInactiveAfter == 2
\* The maxSize of the message cache in the model (DefaultMessageCacheSize
\* is 1000 in the program).
DefaultMessageCacheSize == 2
\* BatteryModeNormal, BatteryModeLow, BatteryModeUltraLow
BatteryModeNormal == 0
BatteryModeLow == 1
BatteryModeUltraLow == 2

\* LinuxMeshProvider: MaxPacketSize and MaxFragmentPayloadSize, in bytes.
MaxPacketSize == 512
MaxFragmentPayloadSize == 480
\* The length of a device id, hence of a sender or recipient id, in bytes.
DeviceIDLen == 8
\* The largest number of fragments a packet handed to SendPacket needs.
MaxFragments == 256
\* cleanupOldFragments: the age after which a slot is dropped (30 s), in
\* units of 30 s.
FragmentTimeout == 1
\* The number of fragments of the packet the transport delivers, and the
\* largest fragment index it delivers.
NumSlices == 3
MaxFragIndex == 3
\* The largest length of a sender id, recipient id or signature handed to
\* Encode.
MaxFieldLen == 256
\* The largest length of the data handed to Pad.
MaxPadData == 241
\* Number of calls of SendMessage on each of the two nodes of an exchange.
MaxSends == 1

MsgIDs == {"m1"}
PeerIDs == {"p1", "p2"}

VARIABLES
  \* ---- RetryService ----
  retryItems,     \* rs.retryItems: messageID -> RetryItem
  timers,         \* the expiry goroutines started by AddRetryPacket
  stopChan,       \* TRUE once rs.stopChan is closed
  loopPc,         \* position of each retryLoop goroutine
  itemsToRetry,   \* processRetries' local slice of *RetryItem
  itemsToRemove,  \* processRetries' local slice of message ids
  stopPc,         \* position of the caller of Stop
  added,          \* history: the entries ever created, by creation number
  cbLog,          \* history: the OnComplete invocations of each entry
  pendingAtStop,  \* history: the entries pending when Stop was called
  sawDuplicateAdd,\* history: AddRetryPacket was called for a pending id
  \* ---- Router ----
  blockedPeersMap,\* r.blockedPeersMap, as the set of its keys
  routerConfig,   \* r.config
  routeInput,     \* history: the arguments of the last RoutePacket call
  routeSends,     \* history: the sendFunc invocations of that call
  \* ---- BluetoothMeshService ----
  isRunning,      \* bms.isRunning
  ctx,            \* bms.ctx, as the number of the context
  cancelled,      \* the contexts whose cancel() was called
  starts,         \* number of Starts that started the loops
  stopped,        \* the Starts whose Stop has returned
  loops,          \* the loop goroutines: position, context selected on, item
  incomingMessages, \* bms.incomingMessages
  outgoingMessages, \* bms.outgoingMessages
  seenMessages,   \* bms.seenMessages: id -> time left to expiry
  messageCache,   \* bms.messageCache.messages, in order of ReceivedAt
  peers,          \* bms.peers: id -> Peer
  batteryMode,    \* bms.batteryMode
  coverTraffic,   \* bms.coverTraffic
  delegateLog,    \* history: the delegate callbacks, event -> count
  injected,       \* history: number of packets the transport delivered
  firstSeenIn,    \* history: wire key -> what is left of the seen-set TTL
                  \* since its first occurrence was handled
  lastHeard,      \* history: peer id -> time since a packet of the peer
                  \* was handled
  \* ---- LinuxMeshProvider.SendPacket ----
  fragSend,       \* the call of SendPacket: its packet and its position
  sentData,       \* history: what was handed to the adapter, in order
  \* ---- FragmentManager ----
  fragments,      \* fm.fragments: fragment id -> index -> data
  startTime,      \* fm.startTime, as the age of the slot
  totalFrags,     \* fm.totalFrags
  addResult,      \* history: the last AddFragment call and what it returned
  \* ---- protocol: Encode, Decode, MessagePadding ----
  codecCall,      \* which function is applied, how far, and the input's kind
  codecPacket,    \* the packet handed to Encode
  codecData,      \* the bytes returned by Encode or handed to Decode or Pad
  codecDecoded,   \* what Decode returned
  padTarget,      \* the targetSize handed to Pad
  padded,         \* what Pad returned
  unpadded,       \* what Unpad returned
  \* ---- two mesh services exchanging messages ----
  xPeers,         \* bms.peers of each node: peer id -> name
  xKeys,          \* encryptionService.peerPublicKeys of each node, its keys
  xSeen,          \* bms.seenMessages of each node
  xCache,         \* bms.messageCache.messages of each node
  xIncoming,      \* bms.incomingMessages of each node
  xOutgoing,      \* bms.outgoingMessages of each node
  xSends,         \* history: the calls of SendMessage of each node, with
                  \* whether both nodes had registered each other's keys
  xDelegate,      \* history: the delegate callbacks of each node
  xAnnounced,     \* history: the announces and key exchanges the transport
                  \* delivered
  \* ---- MessageRouter ----
  processedMessages, \* mr.processedMessages.items: id -> time left to expiry
  setTTL,         \* mr.processedMessages.ttl
  dedupeTime,     \* mr.dedupeTime
  routingTable,   \* mr.routingTable: peer id -> next hop
  routingMetrics, \* mr.routingMetrics: peer id -> metric
  callers,        \* the goroutines calling ShouldProcess, and their results
  firstEver,      \* history: what is left of the dedup TTL since the first
                  \* presentation of each id, and the admissions in it
  firstSince,     \* history: the same, since the last Clear
  observed,       \* history: the largest metric handed to UpdateRoutingInfo
                  \* for each destination since its route was last removed
  tableCall,      \* history: the last call on the routing table or the TTL
  \* ---- ExpiringSet ----
  esItems,        \* es.items: item -> time left to expiry
  esTTL,          \* es.ttl
  esCall,         \* history: the last call on the set and what it returned
  esMembers,      \* history: item -> what is left of the TTL since it was
                  \* last added or refreshed, unless removed since
  \* ---- BluetoothMeshService: bms.mutex and the delegate ----
  mutex,          \* the goroutine that holds bms.mutex, "none" if free
  goroutines,     \* position of each goroutine that uses bms.mutex
  servicePeers,     \* bms.peers: id -> age of LastSeen
  modes,          \* bms.batteryMode and bms.coverTraffic
  \* ---- RetryService under a configuration of its own ----
  rsConfig,       \* rs.config, durations in half seconds
  backoffItem,    \* the RetryItem: Attempts (0: no item) and the time from
                  \* the last attempt to NextAttempt
  \* ---- EncryptionService ----
  peerPublicKeys,   \* es.peerPublicKeys: peer id -> key
  peerSigningKeys,  \* es.peerSigningKeys
  peerIdentityKeys, \* es.peerIdentityKeys
  sharedSecrets,    \* es.sharedSecrets
  keyCall,        \* history: the last call on the service, what it returned
  installed,      \* history: peer id -> the keys and the secret its first
                  \* accepted bundle installed
  \* ---- the message cache on its own ----
  cacheCall,      \* history: the last addToMessageCache, the ids it evicted
  \* ---- platform/linux LinuxMeshProvider: fragment reception ----
  providerMutex,  \* the goroutine that holds m.mutex, "none" if free
  providerPc,     \* position of each goroutine of the provider
  fragmentBuffer, \* m.fragmentBuffer[fromPeerID], the indices it holds
  fragmentMeta,   \* m.fragmentMeta[fromPeerID].TotalFragments, 0 if absent
  received,       \* the fragment handleFragmentReceived is handling
  lockLog         \* history: the Lock and Unlock calls of the current
                  \* handleFragmentReceived, unlocks of a mutex that was
                  \* not held by the caller, callbacks run under the mutex

retryVars == <<retryItems, timers, stopChan, loopPc, itemsToRetry,
               itemsToRemove, stopPc, added, cbLog, pendingAtStop,
               sawDuplicateAdd>>

routerVars == <<blockedPeersMap, routerConfig, routeInput, routeSends>>

meshVars == <<isRunning, ctx, cancelled, starts, stopped, loops,
              incomingMessages, outgoingMessages, seenMessages, messageCache,
              peers, batteryMode, coverTraffic, delegateLog, injected,
              firstSeenIn, lastHeard>>

fragSendVars == <<fragSend, sentData>>

fragmentVars == <<fragments, startTime, totalFrags, addResult>>

codecVars == <<codecCall, codecPacket, codecData, codecDecoded, padTarget,
               padded, unpadded>>

exchangeVars == <<xPeers, xKeys, xSeen, xCache, xIncoming, xOutgoing, xSends,
                  xDelegate, xAnnounced>>

dedupVars == <<processedMessages, setTTL, dedupeTime, routingTable,
               routingMetrics, callers, firstEver, firstSince>>

tableVars == <<observed, tableCall>>

setVars == <<esItems, esTTL, esCall, esMembers>>

delegateVars == <<mutex, goroutines, servicePeers, modes>>

\* The subsystems modelled last.
backoffVars == <<rsConfig, backoffItem>>
keyVars == <<peerPublicKeys, peerSigningKeys, peerIdentityKeys,
             sharedSecrets, keyCall, installed>>
cacheVars == <<cacheCall>>
providerVars == <<providerMutex, providerPc, fragmentBuffer, fragmentMeta,
                  received, lockLog>>
lateVars == <<delegateVars, backoffVars, keyVars, cacheVars, providerVars>>

\* The subsystems modelled after the kernel.
libVars == <<fragSendVars, fragmentVars, codecVars, exchangeVars, dedupVars,
             tableVars, setVars, lateVars>>

vars == <<retryVars, routerVars, meshVars, libVars>>

\* The variables each subsystem leaves alone.
nonRetryVars == <<routerVars, meshVars, libVars>>
nonRouterVars == <<retryVars, meshVars, libVars>>
nonMeshVars == <<retryVars, routerVars, libVars>>
nonFragSendVars == <<retryVars, routerVars, meshVars, fragmentVars,
                     codecVars, exchangeVars, dedupVars,
                     tableVars, setVars, lateVars>>
nonFragmentVars == <<retryVars, routerVars, meshVars, fragSendVars,
                     codecVars, exchangeVars, dedupVars,
                     tableVars, setVars, lateVars>>
nonCodecVars == <<retryVars, routerVars, meshVars, fragSendVars,
                  fragmentVars, exchangeVars, dedupVars,
                     tableVars, setVars, lateVars>>
nonExchangeVars == <<retryVars, routerVars, meshVars, fragSendVars,
                     fragmentVars, codecVars, dedupVars,
                     tableVars, setVars, lateVars>>
nonTableVars == <<retryVars, routerVars, meshVars, fragSendVars,
                  fragmentVars, codecVars, exchangeVars, setVars, lateVars>>
nonDedupVars == <<nonTableVars, tableVars>>
nonSetVars == <<retryVars, routerVars, meshVars, fragSendVars,
                fragmentVars, codecVars, exchangeVars, dedupVars, tableVars,
                lateVars>>
\* The subsystems modelled first.
earlyVars == <<retryVars, routerVars, meshVars, fragSendVars, fragmentVars,
               codecVars, exchangeVars, dedupVars, tableVars, setVars>>
nonDelegateVars == <<earlyVars, backoffVars, keyVars, cacheVars,
                     providerVars>>
nonBackoffVars == <<earlyVars, delegateVars, keyVars, cacheVars,
                    providerVars>>
nonKeyVars == <<earlyVars, delegateVars, backoffVars, cacheVars,
                providerVars>>
nonProviderVars == <<earlyVars, delegateVars, backoffVars, keyVars,
                     cacheVars>>
\* What a call on the message cache leaves alone.
nonCacheVars == <<retryVars, routerVars, isRunning, ctx, cancelled, starts,
                  stopped, loops, incomingMessages, outgoingMessages,
                  seenMessages, peers, batteryMode, coverTraffic, delegateLog,
                  injected, firstSeenIn, lastHeard, fragSendVars,
                  fragmentVars, codecVars, exchangeVars, dedupVars, tableVars,
                  setVars, delegateVars, backoffVars, keyVars, providerVars>>

(***************************************************************************)
(* RetryService                                                            *)
(***************************************************************************)
Gens == 1..(IF MaxAdds > MaxReAdds THEN MaxAdds ELSE MaxReAdds)
RetryLoops == 1..MaxLoops

\* Instants are kept relative to time.Now(): an item's NextAttempt as the
\* time left until it (nextIn, negative once Now is after it), a timer's
\* deadline as the time left until it (dueIn). RetryItem.FirstAttempt is
\* written by AddRetryPacket and read nowhere; an item's creation number
\* (gen) stands for the item and its creation instant.
Max(a, b) == IF a > b THEN a ELSE b

\* The entry (creation number) pending under id, 0 if none.
GenOf(id) == IF id \in DOMAIN retryItems THEN retryItems[id].gen ELSE 0

PendingGens == {retryItems[id].gen : id \in DOMAIN retryItems}

\* A map without key id.
MapDelete(m, id) == [k \in (DOMAIN m) \ {id} |-> m[k]]

\* A map with key id set to v.
MapPut(m, id, v) == [k \in (DOMAIN m) \cup {id} |-> IF k = id THEN v ELSE m[k]]

InitRetry ==
  /\ retryItems = [k \in {} |-> 0]
  /\ timers = {}
  /\ stopChan = FALSE
  /\ loopPc = [k \in RetryLoops |-> "none"]
  /\ itemsToRetry = [k \in RetryLoops |-> {}]
  /\ itemsToRemove = [k \in RetryLoops |-> {}]
  /\ stopPc = "none"
  /\ added = <<>>
  /\ cbLog = [g \in Gens |-> <<>>]
  /\ pendingAtStop = {}
  /\ sawDuplicateAdd = FALSE

\* one clock unit passes
AdvanceTime ==
  /\ retryItems' = [id \in DOMAIN retryItems |->
                      [retryItems[id] EXCEPT
                         !.nextIn = Max(@ - 1, -1)]]
  /\ timers' = {[t EXCEPT !.dueIn = Max(@ - 1, 0)] : t \in timers}
  /\ UNCHANGED <<stopChan, loopPc, itemsToRetry,
                 itemsToRemove, stopPc, added, cbLog,
                 pendingAtStop, sawDuplicateAdd>>
  /\ UNCHANGED nonRetryVars

\* Start: go rs.retryLoop(), the k-th goroutine
Start(k) ==
  /\ loopPc[k] = "none"
  /\ \A j \in RetryLoops : j < k => loopPc[j] # "none"
  /\ loopPc' = [loopPc EXCEPT ![k] = "idle"]
  /\ UNCHANGED <<retryItems, timers, stopChan, itemsToRetry,
                 itemsToRemove, stopPc, added, cbLog,
                 pendingAtStop, sawDuplicateAdd>>
  /\ UNCHANGED nonRetryVars

\* Stop, first half: close(rs.stopChan); the caller then blocks in wg.Wait()
Stop ==
  /\ stopPc = "none"
  /\ stopChan' = TRUE
  /\ stopPc' = "waiting"
  /\ pendingAtStop' = PendingGens
  /\ UNCHANGED <<retryItems, timers, loopPc, itemsToRetry,
                 itemsToRemove, added, cbLog, sawDuplicateAdd>>
  /\ UNCHANGED nonRetryVars

\* Stop, second half: wg.Wait() returns once every retryLoop has run
\* wg.Done()
StopReturn ==
  /\ stopPc = "waiting"
  /\ \A k \in RetryLoops : loopPc[k] \in {"none", "exited"}
  /\ stopPc' = "returned"
  /\ UNCHANGED <<retryItems, timers, stopChan, loopPc, itemsToRetry,
                 itemsToRemove, added, cbLog, pendingAtStop, sawDuplicateAdd>>
  /\ UNCHANGED nonRetryVars

\* A DeliveryInfo handed to OnComplete, with the success flag of the call.
CallInfo(success, status, attempts, cause) ==
  [success |-> success, status |-> status, attempts |-> attempts,
   cause |-> cause]

\* AddRetryPacket, the new item: Attempts 1, NextAttempt now + InitialBackoff
NewRetryItem(gen, target, cb) ==
  [gen |-> gen, target |-> target, attempts |-> 1,
   nextIn |-> InitialBackoff, cb |-> cb]

\* A variant of AddRetryPacket without the check for an existing retry: the
\* new item replaces the pending one.
AddRetryPacket_NoExistsCheck(id, target, cb) ==
  IF id \in DOMAIN retryItems
  THEN /\ retryItems' = MapPut(retryItems, id,
                               NewRetryItem(retryItems[id].gen, target, cb))
       /\ timers' = timers \cup {[id |-> id, gen |-> retryItems[id].gen,
                                   dueIn |-> MaxRetryTime]}
       /\ sawDuplicateAdd' = TRUE
       /\ UNCHANGED <<stopChan, loopPc, itemsToRetry, itemsToRemove, stopPc,
                      added, cbLog, pendingAtStop>>
       /\ UNCHANGED nonRetryVars
  ELSE /\ Len(added) < MaxAdds
       /\ LET gen == Len(added) + 1 IN
            /\ retryItems' = MapPut(retryItems, id,
                                    NewRetryItem(gen, target, cb))
            /\ added' = Append(added, [id |-> id, cb |-> cb])
            /\ timers' = timers \cup {[id |-> id, gen |-> gen,
                                        dueIn |-> MaxRetryTime]}
       /\ UNCHANGED <<stopChan, loopPc, itemsToRetry, itemsToRemove, stopPc,
                      cbLog, pendingAtStop, sawDuplicateAdd>>
       /\ UNCHANGED nonRetryVars

\* AddRetryPacket(packet, targetPeerID, onComplete); cb says onComplete # nil.
\* The service is handed at most limit entries.
AddRetryPacketWithin(limit, id, target, cb) ==
  IF id \in DOMAIN retryItems
  THEN \* a retry for this message exists: return
       /\ sawDuplicateAdd' = TRUE
       /\ UNCHANGED <<retryItems, timers, stopChan, loopPc,
                      itemsToRetry, itemsToRemove, stopPc, added, cbLog, pendingAtStop>>
       /\ UNCHANGED nonRetryVars
  ELSE /\ Len(added) < limit
       /\ LET gen == Len(added) + 1 IN
            /\ retryItems' = MapPut(retryItems, id, NewRetryItem(gen, target, cb))
            /\ added' = Append(added, [id |-> id, cb |-> cb])
            \* MaxRetryTime > 0: go func(id) { select time.After / stopChan }
            /\ timers' = IF MaxRetryTime > 0
                         THEN timers \cup {[id |-> id, gen |-> gen,
                                            dueIn |-> MaxRetryTime]}
                         ELSE timers
       /\ UNCHANGED <<stopChan, loopPc, itemsToRetry, itemsToRemove,
                      stopPc, cbLog, pendingAtStop,
                      sawDuplicateAdd>>
       /\ UNCHANGED nonRetryVars

AddRetryPacket(id, target, cb) == AddRetryPacketWithin(MaxAdds, id, target, cb)

\* A variant of MarkDelivered that removes the entry and reports it Failed.
MarkDelivered_ReportsFailed(id) ==
  /\ IF id \in DOMAIN retryItems
     THEN LET item == retryItems[id] IN
            /\ cbLog' = IF item.cb
                        THEN [cbLog EXCEPT ![item.gen] =
                                Append(@, CallInfo(FALSE, "Failed",
                                                   item.attempts, "delivered"))]
                        ELSE cbLog
            /\ retryItems' = MapDelete(retryItems, id)
     ELSE UNCHANGED <<retryItems, cbLog>>
  /\ UNCHANGED <<timers, stopChan, loopPc, itemsToRetry, itemsToRemove,
                 stopPc, added, pendingAtStop, sawDuplicateAdd>>
  /\ UNCHANGED nonRetryVars

\* MarkDelivered(messageID)
MarkDelivered(id) ==
  /\ IF id \in DOMAIN retryItems
     THEN LET item == retryItems[id] IN
            /\ cbLog' = IF item.cb
                        THEN [cbLog EXCEPT ![item.gen] =
                                Append(@, CallInfo(TRUE, "Delivered",
                                                   item.attempts, "delivered"))]
                        ELSE cbLog
            /\ retryItems' = MapDelete(retryItems, id)
     ELSE UNCHANGED <<retryItems, cbLog>>
  /\ UNCHANGED <<timers, stopChan, loopPc, itemsToRetry, itemsToRemove,
                 stopPc, added, pendingAtStop, sawDuplicateAdd>>
  /\ UNCHANGED nonRetryVars

\* handleFailedDelivery(messageID): its effect on the map and the callbacks
HandleFailedDelivery(id, cause) ==
  IF id \in DOMAIN retryItems
  THEN LET item == retryItems[id] IN
         /\ cbLog' = IF item.cb
                     THEN [cbLog EXCEPT ![item.gen] =
                             Append(@, CallInfo(FALSE, "Failed",
                                                item.attempts, cause))]
                     ELSE cbLog
         /\ retryItems' = MapDelete(retryItems, id)
  ELSE UNCHANGED <<retryItems, cbLog>>

\* ClearRetries: rs.retryItems = make(map[string]*RetryItem)
ClearRetries ==
  /\ retryItems' = [k \in {} |-> 0]
  /\ UNCHANGED <<timers, stopChan, loopPc, itemsToRetry, itemsToRemove,
                 stopPc, added, cbLog, pendingAtStop, sawDuplicateAdd>>
  /\ UNCHANGED nonRetryVars

\* The expiry goroutine of AddRetryPacket: case <-time.After(MaxRetryTime)
TimerExpire(t) ==
  /\ t \in timers
  /\ t.dueIn = 0
  /\ timers' = timers \ {t}
  /\ HandleFailedDelivery(t.id, "timeout")
  /\ UNCHANGED <<stopChan, loopPc, itemsToRetry, itemsToRemove, stopPc,
                 added, pendingAtStop, sawDuplicateAdd>>
  /\ UNCHANGED nonRetryVars

\* The expiry goroutine of AddRetryPacket: case <-rs.stopChan: return
TimerCancel(t) ==
  /\ t \in timers
  /\ stopChan
  /\ timers' = timers \ {t}
  /\ UNCHANGED <<retryItems, stopChan, loopPc, itemsToRetry,
                 itemsToRemove, stopPc, added, cbLog,
                 pendingAtStop, sawDuplicateAdd>>
  /\ UNCHANGED nonRetryVars

\* processRetries, the scan under RLock: an item is due when now is after
\* NextAttempt; a due item is removed when Attempts >= MaxRetries
DueItems == {id \in DOMAIN retryItems : retryItems[id].nextIn < 0}

Exhausted(item) == item.attempts >= MaxRetries

CollectToRemove == {id \in DueItems : Exhausted(retryItems[id])}

CollectToRetry ==
  {[id |-> id, gen |-> retryItems[id].gen] :
     id \in {i \in DueItems : ~Exhausted(retryItems[i])}}

\* retryLoop: case <-ticker.C: processRetries(), up to the end of the scan
ProcessRetries(k) ==
  /\ loopPc[k] = "idle"
  /\ itemsToRetry' = [itemsToRetry EXCEPT ![k] = CollectToRetry]
  /\ itemsToRemove' = [itemsToRemove EXCEPT ![k] = CollectToRemove]
  /\ loopPc' = [loopPc EXCEPT ![k] =
                  IF CollectToRetry # {} \/ CollectToRemove # {}
                  THEN "processing" ELSE "idle"]
  /\ UNCHANGED <<retryItems, timers, stopChan, stopPc, added, cbLog, pendingAtStop, sawDuplicateAdd>>
  /\ UNCHANGED nonRetryVars

\* A schedule that leaves out the limit of MaxBackoff.
BackoffWith_Unlimited(config, attempts) ==
  (config.InitialBackoff * (attempts - 1) * BackoffFactorNum)
    \div BackoffFactorDen

\* retryMessage: the backoff to the next attempt under rs.config
BackoffWith(config, attempts) ==
  LET b == (config.InitialBackoff * (attempts - 1) * BackoffFactorNum)
             \div BackoffFactorDen
  IN IF b > config.MaxBackoff THEN config.MaxBackoff ELSE b

\* retryMessage: the backoff to the next attempt
Backoff(attempts) ==
  BackoffWith([InitialBackoff |-> InitialBackoff, MaxBackoff |-> MaxBackoff],
              attempts)

\* retryMessage: the item after Attempts++ and the new NextAttempt
RetriedItem(item) ==
  [item EXCEPT !.attempts = item.attempts + 1,
               !.nextIn = Backoff(item.attempts + 1)]

\* processRetries: retryMessage(item) for one collected item. The item is a
\* pointer: when the map no longer holds that item, only the send is seen.
RetryMessage(k, ref) ==
  /\ loopPc[k] = "processing"
  /\ ref \in itemsToRetry[k]
  /\ itemsToRetry' = [itemsToRetry EXCEPT ![k] = @ \ {ref}]
  /\ retryItems' = IF GenOf(ref.id) = ref.gen
                   THEN [retryItems EXCEPT ![ref.id] = RetriedItem(@)]
                   ELSE retryItems
  /\ loopPc' = [loopPc EXCEPT ![k] =
                  IF itemsToRetry'[k] = {} /\ itemsToRemove[k] = {}
                  THEN "idle" ELSE "processing"]
  /\ UNCHANGED <<timers, stopChan, itemsToRemove, stopPc, added, cbLog,
                 pendingAtStop, sawDuplicateAdd>>
  /\ UNCHANGED nonRetryVars

\* processRetries: handleFailedDelivery(id) for one collected id, after all
\* the retries
RemoveExhausted(k, id) ==
  /\ loopPc[k] = "processing"
  /\ itemsToRetry[k] = {}
  /\ id \in itemsToRemove[k]
  /\ itemsToRemove' = [itemsToRemove EXCEPT ![k] = @ \ {id}]
  /\ HandleFailedDelivery(id, "maxretries")
  /\ loopPc' = [loopPc EXCEPT ![k] =
                  IF itemsToRemove'[k] = {} THEN "idle" ELSE "processing"]
  /\ UNCHANGED <<timers, stopChan, itemsToRetry, stopPc, added, pendingAtStop, sawDuplicateAdd>>
  /\ UNCHANGED nonRetryVars

\* retryLoop: case <-rs.stopChan: return (wg.Done())
RetryLoopExit(k) ==
  /\ loopPc[k] = "idle"
  /\ stopChan
  /\ loopPc' = [loopPc EXCEPT ![k] = "exited"]
  /\ UNCHANGED <<retryItems, timers, stopChan, itemsToRetry,
                 itemsToRemove, stopPc, added, cbLog,
                 pendingAtStop, sawDuplicateAdd>>
  /\ UNCHANGED nonRetryVars

\* The service is started once, as by every caller in the repository.
NextRetry ==
  \/ AdvanceTime
  \/ Start(1)
  \/ Stop
  \/ StopReturn
  \/ \E id \in MsgIDs, target \in PeerIDs, cb \in BOOLEAN :
       AddRetryPacket(id, target, cb)
  \/ \E id \in MsgIDs : MarkDelivered(id)
  \/ ClearRetries
  \/ \E t \in timers : TimerExpire(t)
  \/ \E t \in timers : TimerCancel(t)
  \/ \E k \in RetryLoops : ProcessRetries(k)
  \/ \E k \in RetryLoops : \E ref \in itemsToRetry[k] : RetryMessage(k, ref)
  \/ \E k \in RetryLoops : \E id \in itemsToRemove[k] : RemoveExhausted(k, id)
  \/ \E k \in RetryLoops : RetryLoopExit(k)

\* The service is handed an id again after its entry was completed.
NextRetryReAdd ==
  \/ AdvanceTime
  \/ Start(1)
  \/ \E id \in MsgIDs, target \in PeerIDs, cb \in BOOLEAN :
       AddRetryPacketWithin(MaxReAdds, id, target, cb)
  \/ \E id \in MsgIDs : MarkDelivered(id)
  \/ ClearRetries
  \/ \E t \in timers : TimerExpire(t)
  \/ \E k \in RetryLoops : ProcessRetries(k)
  \/ \E k \in RetryLoops : \E ref \in itemsToRetry[k] : RetryMessage(k, ref)
  \/ \E k \in RetryLoops : \E id \in itemsToRemove[k] : RemoveExhausted(k, id)

\* Start is called up to MaxLoops times and nothing is delivered, cleared
\* or stopped.
NextRetryLoops ==
  \/ AdvanceTime
  \/ \E k \in RetryLoops : Start(k)
  \/ \E id \in MsgIDs, target \in PeerIDs, cb \in BOOLEAN :
       AddRetryPacket(id, target, cb)
  \/ \E t \in timers : TimerExpire(t)
  \/ \E k \in RetryLoops : ProcessRetries(k)
  \/ \E k \in RetryLoops : \E ref \in itemsToRetry[k] : RetryMessage(k, ref)
  \/ \E k \in RetryLoops : \E id \in itemsToRemove[k] : RemoveExhausted(k, id)


(***************************************************************************)
(* RetryService: the properties                                            *)
(***************************************************************************)
\* The entries created so far.
AddedGens == 1..Len(added)

\* C4: the completion callback of every entry added with a non-nil callback
\* is invoked exactly once: never twice, and an entry that is no longer
\* pending has had its one invocation.
C4_CallbackExactlyOnce ==
  \A g \in AddedGens :
    added[g].cb =>
      /\ Len(cbLog[g]) <= 1
      /\ (g \notin PendingGens => Len(cbLog[g]) = 1)

\* C6: an entry given up after the maximum number of retries is reported
\* Failed with Attempts = MaxRetries + 1.
C6_ExhaustedReportsMaxRetriesPlusOne ==
  \A g \in AddedGens :
    \A i \in DOMAIN cbLog[g] :
      cbLog[g][i].cause = "maxretries" =>
        /\ ~cbLog[g][i].success
        /\ cbLog[g][i].status = "Failed"
        /\ cbLog[g][i].attempts = MaxRetries + 1

\* C7: AddRetryPacket for an id that is already pending, with any target and
\* callback, leaves the pending set and the existing entry unchanged, starts
\* no expiry goroutine and invokes no callback.
C7_AddIsIdempotent ==
  [][\A id \in MsgIDs, target \in PeerIDs, cb \in BOOLEAN :
       (id \in DOMAIN retryItems /\ AddRetryPacket(id, target, cb)) =>
         /\ retryItems' = retryItems
         /\ Cardinality(DOMAIN retryItems') = Cardinality(DOMAIN retryItems)
         /\ timers' = timers
         /\ cbLog' = cbLog]_vars

\* A duplicate add has happened and the entry is still pending.
C7_Witness ==
  /\ sawDuplicateAdd
  /\ Cardinality(DOMAIN retryItems) = 1

\* C8: MarkDelivered(id) on a pending entry removes it (the pending count
\* drops by one) and invokes its callback with success and Delivered;
\* on an id that is not pending it changes nothing and invokes no callback.
C8_MarkDelivered ==
  [][\A id \in MsgIDs :
       MarkDelivered(id) =>
         IF id \in DOMAIN retryItems
         THEN LET item == retryItems[id] IN
                /\ id \notin DOMAIN retryItems'
                /\ Cardinality(DOMAIN retryItems')
                     = Cardinality(DOMAIN retryItems) - 1
                /\ \A k \in DOMAIN retryItems' : retryItems'[k] = retryItems[k]
                /\ item.cb =>
                     /\ Len(cbLog'[item.gen]) = Len(cbLog[item.gen]) + 1
                     /\ LET c == cbLog'[item.gen][Len(cbLog'[item.gen])] IN
                          /\ c.success
                          /\ c.status = "Delivered"
                          /\ c.attempts = item.attempts
                /\ \A g \in Gens : g # item.gen => cbLog'[g] = cbLog[g]
                /\ ~item.cb => cbLog' = cbLog
         ELSE /\ retryItems' = retryItems
              /\ cbLog' = cbLog]_vars

\* An entry was delivered: it is no longer pending and its callback was told.
C8_Witness ==
  \E g \in AddedGens :
    /\ g \notin PendingGens
    /\ Len(cbLog[g]) = 1
    /\ cbLog[g][1].cause = "delivered"
    /\ cbLog[g][1].success

\* C9: in every reachable state, the Attempts of each pending entry is at
\* most MaxRetries + 1 (the counter only grows: retryMessage's Attempts++ is
\* its one assignment).
C9_AttemptsBounded ==
  \A id \in DOMAIN retryItems : retryItems[id].attempts <= MaxRetries + 1


\* C10: once Stop has returned, every entry that was pending when Stop was
\* called has had its callback invoked with Failed (an entry delivered in
\* the meantime was told Delivered instead).
C10_StopFailsPending ==
  (stopPc = "returned" /\ loopPc[1] = "exited") =>
    \A g \in pendingAtStop :
      added[g].cb =>
        \E i \in DOMAIN cbLog[g] :
          \/ ~cbLog[g][i].success
          \/ cbLog[g][i].cause = "delivered"

(***************************************************************************)
(* Router (pkg/mesh)                                                       *)
(***************************************************************************)
\* A nil or empty RecipientID: RoutePacket broadcasts.
NoRecipient == ""

RouterPackets ==
  [sender : PeerIDs, recipient : PeerIDs \cup {NoRecipient},
   ttl : 0..MaxPacketTTL]

RoutingConfigs ==
  [AllowBroadcast : BOOLEAN, BlockedPeers : SUBSET PeerIDs]

NoRoute == [called |-> FALSE]

\* DefaultRoutingConfig and NewRouter(nil, sendFunc)
InitRouter ==
  /\ routerConfig = [AllowBroadcast |-> TRUE, BlockedPeers |-> {}]
  /\ blockedPeersMap = {}
  /\ routeInput = NoRoute
  /\ routeSends = {}

\* r.isBlocked(peerID)
IsBlocked(peerID) == peerID \in blockedPeersMap

\* RoutePacket: whether the packet gets past the sender and TTL checks
RouteAccepts(packet) ==
  /\ ~IsBlocked(packet.sender)
  /\ ~(packet.ttl <= 0)

\* RoutePacket: packet.TTL--
Decremented(packet) == [packet EXCEPT !.ttl = packet.ttl - 1]

\* RoutePacket: the sendFunc invocations, as (packet as sent, target)
RouteSendsOf(packet, knownPeers) ==
  IF ~RouteAccepts(packet) THEN {}
  ELSE IF packet.recipient = NoRecipient
       THEN IF ~routerConfig.AllowBroadcast THEN {}
            ELSE {[packet |-> Decremented(packet), to |-> peerID] :
                    peerID \in {q \in knownPeers : ~IsBlocked(q)}}
       ELSE IF IsBlocked(packet.recipient) THEN {}
            ELSE {[packet |-> Decremented(packet), to |-> packet.recipient]}

\* RoutePacket(packet, knownPeers)
RoutePacket(packet, knownPeers) ==
  /\ routeInput' = [called |-> TRUE, packet |-> packet,
                    knownPeers |-> knownPeers]
  /\ routeSends' = RouteSendsOf(packet, knownPeers)
  /\ UNCHANGED <<blockedPeersMap, routerConfig>>
  /\ UNCHANGED nonRouterVars

\* BlockPeer(peerID)
BlockPeer(peerID) ==
  /\ blockedPeersMap' = blockedPeersMap \cup {peerID}
  /\ UNCHANGED <<routerConfig, routeInput, routeSends>>
  /\ UNCHANGED nonRouterVars

\* UnblockPeer(peerID)
UnblockPeer(peerID) ==
  /\ blockedPeersMap' = blockedPeersMap \ {peerID}
  /\ UNCHANGED <<routerConfig, routeInput, routeSends>>
  /\ UNCHANGED nonRouterVars

\* UpdateConfig(config)
UpdateConfig(config) ==
  /\ routerConfig' = config
  /\ blockedPeersMap' = config.BlockedPeers
  /\ UNCHANGED <<routeInput, routeSends>>
  /\ UNCHANGED nonRouterVars

NextRouter ==
  \/ \E packet \in RouterPackets, knownPeers \in SUBSET PeerIDs :
       RoutePacket(packet, knownPeers)
  \/ \E peerID \in PeerIDs : BlockPeer(peerID)
  \/ \E peerID \in PeerIDs : UnblockPeer(peerID)
  \/ \E config \in RoutingConfigs : UpdateConfig(config)

\* C2: the send function is never invoked with a packet whose TTL after the
\* decrement is 0: a packet that arrives with TTL 1 or 0 is forwarded to
\* no peer.
C2_NoRelayOfExhausted ==
  /\ \A s \in routeSends : s.packet.ttl > 0
  /\ (routeInput.called /\ routeInput.packet.ttl <= 1) => routeSends = {}

(***************************************************************************)
(* BluetoothMeshService (internal/bluetooth): the mesh kernel              *)
(***************************************************************************)
\* bms.deviceID, protocol.BroadcastRecipient and a third party
Me == "me"
BroadcastRecipient == "ff"
Other == "B"

\* The values utils.GenerateMessageID can return.
MeshIDs == {"i1", "i2"}

LoopKinds == {"maintenance", "outgoing", "incoming"}
Loops == (1..MaxStarts) \X LoopKinds
NoItem == [type |-> "none"]
Tick == [type |-> "tick"]

Packet(type, sender, recipient, payload, ttl) ==
  [type |-> type, sender |-> sender, recipient |-> recipient, ts |-> 0,
   payload |-> payload, ttl |-> ttl]

\* What identifies a wire packet: everything but the TTL.
WireKey(packet) ==
  [type |-> packet.type, sender |-> packet.sender,
   recipient |-> packet.recipient, ts |-> packet.ts,
   payload |-> packet.payload]

\* The packets the transport delivers: announces of peer A with a
\* well-formed payload, and messages of A to everybody or to a third party.
InjectablePackets ==
  {Packet("Announce", "A", BroadcastRecipient, "announce:A", 1)}
    \cup {Packet("Message", "A", BroadcastRecipient, "hi", t) :
            t \in 0..MaxPacketTTL}
    \cup {Packet("Message", "A", Other, "hi", MaxPacketTTL)}

\* A map with the count of key k raised by one.
Count(m, k) == IF k \in DOMAIN m THEN m[k] ELSE 0
Counted(m, k) == MapPut(m, k, Count(m, k) + 1)

\* NewBluetoothMeshService
InitMesh ==
  /\ isRunning = FALSE
  /\ ctx = 1
  /\ cancelled = {}
  /\ starts = 0
  /\ stopped = {}
  /\ loops = [l \in Loops |-> [pc |-> "unstarted", ctx |-> 0, item |-> NoItem]]
  /\ incomingMessages = <<>>
  /\ outgoingMessages = <<>>
  /\ seenMessages = [k \in {} |-> 0]
  /\ messageCache = <<>>
  /\ peers = [k \in {} |-> 0]
  /\ batteryMode = BatteryModeNormal
  /\ coverTraffic = TRUE
  /\ delegateLog = [k \in {} |-> 0]
  /\ injected = 0
  /\ firstSeenIn = [k \in {} |-> 0]
  /\ lastHeard = [k \in {} |-> 0]

\* Start: the provider is created and initialised (ok) or fails, the three
\* loop goroutines are spawned
MeshStart(ok) ==
  /\ ~isRunning
  /\ ok
  /\ starts < MaxStarts
  /\ starts' = starts + 1
  /\ loops' = [l \in Loops |->
                 IF l[1] = starts + 1
                 THEN [pc |-> "spawned", ctx |-> 0, item |-> NoItem]
                 ELSE loops[l]]
  /\ isRunning' = TRUE
  /\ UNCHANGED <<ctx, cancelled, stopped, incomingMessages, outgoingMessages,
                 seenMessages, messageCache, peers, batteryMode, coverTraffic,
                 delegateLog, injected,
                 firstSeenIn,
                 lastHeard>>
  /\ UNCHANGED nonMeshVars

\* Stop: bms.cancel(), then a new context for the next start
MeshStop ==
  /\ isRunning
  /\ cancelled' = cancelled \cup {ctx}
  /\ ctx' = ctx + 1
  /\ isRunning' = FALSE
  /\ stopped' = stopped \cup {starts}
  /\ UNCHANGED <<starts, loops, incomingMessages, outgoingMessages,
                 seenMessages, messageCache, peers, batteryMode, coverTraffic,
                 delegateLog, injected,
                 firstSeenIn,
                 lastHeard>>
  /\ UNCHANGED nonMeshVars

\* A loop evaluates its select: it reads bms.ctx and waits on its Done()
SelectOn(c) == [pc |-> "select", ctx |-> c, item |-> NoItem]

\* a spawned loop goroutine reaches its select for the first time
LoopEnterSelect(l) ==
  /\ loops[l].pc = "spawned"
  /\ loops' = [loops EXCEPT ![l] = SelectOn(ctx)]
  /\ UNCHANGED <<isRunning, ctx, cancelled, starts, stopped,
                 incomingMessages, outgoingMessages, seenMessages,
                 messageCache, peers, batteryMode, coverTraffic, delegateLog, injected,
                 firstSeenIn,
                 lastHeard>>
  /\ UNCHANGED nonMeshVars

\* case <-bms.ctx.Done(): return
LoopExit(l) ==
  /\ loops[l].pc = "select"
  /\ loops[l].ctx \in cancelled
  /\ loops' = [loops EXCEPT ![l] = [pc |-> "exited", ctx |-> @.ctx,
                                    item |-> NoItem]]
  /\ UNCHANGED <<isRunning, ctx, cancelled, starts, stopped,
                 incomingMessages, outgoingMessages, seenMessages,
                 messageCache, peers, batteryMode, coverTraffic, delegateLog, injected,
                 firstSeenIn,
                 lastHeard>>
  /\ UNCHANGED nonMeshVars

\* case packet := <-bms.incomingMessages / <-bms.outgoingMessages / <-ticker.C
LoopReceive(l) ==
  /\ loops[l].pc = "select"
  /\ \/ /\ l[2] = "incoming"
        /\ incomingMessages # <<>>
        /\ loops' = [loops EXCEPT ![l] = [pc |-> "handling", ctx |-> @.ctx,
                                          item |-> Head(incomingMessages)]]
        /\ incomingMessages' = Tail(incomingMessages)
        /\ UNCHANGED outgoingMessages
     \/ /\ l[2] = "outgoing"
        /\ outgoingMessages # <<>>
        /\ loops' = [loops EXCEPT ![l] = [pc |-> "handling", ctx |-> @.ctx,
                                          item |-> Head(outgoingMessages)]]
        /\ outgoingMessages' = Tail(outgoingMessages)
        /\ UNCHANGED incomingMessages
     \/ /\ l[2] = "maintenance"
        /\ loops' = [loops EXCEPT ![l] = [pc |-> "handling", ctx |-> @.ctx,
                                          item |-> Tick]]
        /\ UNCHANGED <<incomingMessages, outgoingMessages>>
  /\ UNCHANGED <<isRunning, ctx, cancelled, starts, stopped, seenMessages,
                 messageCache, peers, batteryMode, coverTraffic, delegateLog, injected,
                 firstSeenIn,
                 lastHeard>>
  /\ UNCHANGED nonMeshVars

\* The transport (LinuxMeshProvider.handleReceivedData) puts a decoded
\* packet on bms.incomingMessages
Inject(packet) ==
  /\ isRunning
  /\ injected < MaxInject
  /\ Len(incomingMessages) < QueueCap
  /\ incomingMessages' = Append(incomingMessages, packet)
  /\ injected' = injected + 1
  /\ UNCHANGED <<isRunning, ctx, cancelled, starts, stopped, loops,
                 outgoingMessages, seenMessages, messageCache, peers,
                 batteryMode, coverTraffic, delegateLog, firstSeenIn,
                 lastHeard>>
  /\ UNCHANGED nonMeshVars

\* The delegate callbacks
NoKey == WireKey(Packet("none", "", "", "", 0))
OnMessageReceived(packet) ==
  [cb |-> "OnMessageReceived", peer |-> packet.sender, key |-> WireKey(packet)]
OnPeerDiscovered(peerID) ==
  [cb |-> "OnPeerDiscovered", peer |-> peerID, key |-> NoKey]
OnPeerLost(peerID) ==
  [cb |-> "OnPeerLost", peer |-> peerID, key |-> NoKey]
NoEvent == [cb |-> "none", peer |-> "", key |-> NoKey]

\* What a loop blocked in "bms.outgoingMessages <- packet" holds: the
\* packet and the delegate call that follows the send
Sending(c, packet, notify) ==
  [pc |-> "sending", ctx |-> c,
   item |-> [type |-> "send", packet |-> packet, notify |-> notify]]

\* ExpiringSet.Contains and ExpiringSet.Add on bms.seenMessages
SeenContains(item) == item \in DOMAIN seenMessages /\ seenMessages[item] > 0
SeenAdd(item) ==
  IF SeenContains(item) THEN seenMessages
  ELSE MapPut(seenMessages, item, DefaultMessageCacheTTL)

\* The two kinds of message-cache key: utils.GenerateMessageID's value and
\* the hex of utils.Hash of the payload
IDKey(messageID) == [kind |-> "id", of |-> messageID]
HashKey(payload) == [kind |-> "hash", of |-> payload]

\* addToMessageCache: the time to live of a new cache entry
CacheTTL ==
  IF batteryMode = BatteryModeLow THEN DefaultMessageCacheTTL \div 2
  ELSE IF batteryMode = BatteryModeUltraLow THEN DefaultMessageCacheTTL \div 4
  ELSE DefaultMessageCacheTTL

CacheIDs(cache) == {cache[i].id : i \in DOMAIN cache}

\* A cache that makes room by dropping its newest entry.
AddToMessageCache_EvictNewest(cache, messageID, packet, originalSender) ==
  IF messageID \in CacheIDs(cache) THEN cache
  ELSE LET kept == IF Len(cache) >= DefaultMessageCacheSize /\ cache # <<>>
                   THEN SubSeq(cache, 1, Len(cache) - 1) ELSE cache
       IN Append(kept, [id |-> messageID, packet |-> packet,
                        expiresIn |-> DefaultMessageCacheTTL,
                        originalSender |-> originalSender])

\* addToMessageCache: nothing if the id is cached, else the oldest entry
\* makes room when the cache is full
AddToMessageCache(cache, messageID, packet, originalSender) ==
  IF messageID \in CacheIDs(cache) THEN cache
  ELSE LET kept == IF Len(cache) >= DefaultMessageCacheSize /\ cache # <<>>
                   THEN Tail(cache) ELSE cache
       IN Append(kept, [id |-> messageID, packet |-> packet,
                        expiresIn |-> CacheTTL,
                        originalSender |-> originalSender])

\* isPacketForUs
IsPacketForUs(packet) ==
  packet.recipient = BroadcastRecipient \/ packet.recipient = Me

\* handleAnnounce: the payload carries a name length, a name and a key
AnnouncePayloads == {"announce:A"}
AnnounceName(payload) == "alice"

\* addOrUpdatePeer
AddOrUpdatePeer(peerID, name) == MapPut(peers, peerID, [name |-> name, age |-> 0])

\* sendDeliveryAck: the acknowledgement of message messageID to recipientID
\* (encryptionService.Sign succeeds)
DeliveryAck(messageID, recipientID) ==
  Packet("DeliveryAck", Me, recipientID, messageID, AckTTL)

\* handleIncomingPacket, up to the point where handleUserMessage blocks in
\* sendDeliveryAck; messageID and userMessageID are the values of the two
\* calls of utils.GenerateMessageID
LoopHandleIncoming(l, messageID, userMessageID) ==
  /\ loops[l].pc = "handling"
  /\ l[2] = "incoming"
  /\ LET packet == loops[l].item
         key == WireKey(packet)
         dup == key \in DOMAIN firstSeenIn /\ firstSeenIn[key] > 0
         accepted == ~SeenContains(messageID) /\ packet.ttl > 0
         relayed == [packet EXCEPT !.ttl = @ - 1]
         cached == IF accepted
                   THEN AddToMessageCache(messageCache, IDKey(messageID),
                                          relayed, packet.sender)
                   ELSE messageCache
         forUs == accepted /\ IsPacketForUs(relayed)
         isMessage == forUs /\ packet.type = "Message"
                        /\ packet.sender \in DOMAIN peers
         isAnnounce == forUs /\ packet.type = "Announce"
                         /\ packet.payload \in AnnouncePayloads
         isNewPeer == isAnnounce /\ packet.sender \notin DOMAIN peers
     IN /\ seenMessages' = SeenAdd(messageID)
        /\ messageCache' = cached
        /\ peers' = IF isAnnounce
                    THEN AddOrUpdatePeer(packet.sender,
                                         AnnounceName(packet.payload))
                    ELSE peers
        /\ delegateLog' = IF isNewPeer
                          THEN Counted(delegateLog,
                                       OnPeerDiscovered(packet.sender))
                          ELSE delegateLog
        /\ loops' = [loops EXCEPT ![l] =
                       IF isMessage
                       THEN Sending(ctx, DeliveryAck(userMessageID,
                                                     packet.sender),
                                    OnMessageReceived(packet))
                       ELSE SelectOn(ctx)]
        /\ firstSeenIn' = IF dup THEN firstSeenIn
                          ELSE MapPut(firstSeenIn, key, DefaultMessageCacheTTL)
        /\ lastHeard' = IF isMessage \/ isAnnounce
                        THEN MapPut(lastHeard, packet.sender, 0)
                        ELSE lastHeard
  /\ UNCHANGED <<isRunning, ctx, cancelled, starts, stopped,
                 incomingMessages, outgoingMessages, batteryMode,
                 coverTraffic, injected>>
  /\ UNCHANGED nonMeshVars

\* bms.outgoingMessages <- packet, then what follows it in the handler
LoopSend(l) ==
  /\ loops[l].pc = "sending"
  /\ Len(outgoingMessages) < QueueCap
  /\ LET item == loops[l].item
     IN /\ outgoingMessages' = Append(outgoingMessages, item.packet)
        /\ delegateLog' = IF item.notify = NoEvent THEN delegateLog
                          ELSE Counted(delegateLog, item.notify)
  /\ loops' = [loops EXCEPT ![l] = SelectOn(ctx)]
  /\ UNCHANGED <<isRunning, ctx, cancelled, starts, stopped,
                 incomingMessages, seenMessages, messageCache, peers,
                 batteryMode, coverTraffic, injected,
                 firstSeenIn,
                 lastHeard>>
  /\ UNCHANGED nonMeshVars

\* processOutgoingMessages: the body of the packet case
LoopHandleOutgoing(l) ==
  /\ loops[l].pc = "handling"
  /\ l[2] = "outgoing"
  /\ LET packet == loops[l].item
     IN messageCache' = AddToMessageCache(messageCache,
                                          HashKey(packet.payload),
                                          packet, "self")
  /\ loops' = [loops EXCEPT ![l] = SelectOn(ctx)]
  /\ UNCHANGED <<isRunning, ctx, cancelled, starts, stopped,
                 incomingMessages, outgoingMessages, seenMessages, peers,
                 batteryMode, coverTraffic, delegateLog, injected, firstSeenIn,
                 lastHeard>>
  /\ UNCHANGED nonMeshVars

\* cleanupExpiredMessages
CleanupExpiredMessages(cache) ==
  SelectSeq(cache, LAMBDA m : ~(m.expiresIn < 0))

\* cleanupInactivePeers: the peers it deletes
InactivePeers == {id \in DOMAIN peers : peers[id].age > PeerInactiveAfter}

\* generateCoverTraffic: the packet of cover traffic
CoverPacket == Packet("Announce", Me, BroadcastRecipient, "", CoverTTL)

\* maintenanceLoop: the body of the ticker case, up to the point where
\* generateCoverTraffic blocks; lucky is utils.RandomInt(100) < 10
LoopHandleTick(l, lucky) ==
  /\ loops[l].pc = "handling"
  /\ l[2] = "maintenance"
  /\ messageCache' = CleanupExpiredMessages(messageCache)
  /\ peers' = [id \in (DOMAIN peers) \ InactivePeers |-> peers[id]]
  /\ lastHeard' = [id \in (DOMAIN lastHeard) \ InactivePeers |-> lastHeard[id]]
  /\ LET lost == {OnPeerLost(id) : id \in InactivePeers}
     IN delegateLog' = [e \in (DOMAIN delegateLog) \cup lost |->
                          Count(delegateLog, e) + IF e \in lost THEN 1 ELSE 0]
  /\ loops' = [loops EXCEPT ![l] =
                 IF coverTraffic /\ batteryMode = BatteryModeNormal /\ lucky
                 THEN Sending(ctx, CoverPacket, NoEvent)
                 ELSE SelectOn(ctx)]
  /\ UNCHANGED <<isRunning, ctx, cancelled, starts, stopped,
                 incomingMessages, outgoingMessages, seenMessages,
                 batteryMode, coverTraffic, injected, firstSeenIn>>
  /\ UNCHANGED nonMeshVars

\* ExpiringSet.cleanup, run by the goroutine of bms.seenMessages
SeenCleanup ==
  /\ seenMessages' = [id \in {i \in DOMAIN seenMessages :
                                ~(seenMessages[i] < 0)} |-> seenMessages[id]]
  /\ UNCHANGED <<isRunning, ctx, cancelled, starts, stopped, loops,
                 incomingMessages, outgoingMessages, messageCache, peers,
                 batteryMode, coverTraffic, delegateLog, injected, firstSeenIn,
                 lastHeard>>
  /\ UNCHANGED nonMeshVars

\* One unit of time passes for the mesh service
MeshTimePasses ==
  /\ seenMessages' = [id \in DOMAIN seenMessages |->
                        Max(seenMessages[id] - 1, -1)]
  /\ messageCache' = [i \in DOMAIN messageCache |->
                        [messageCache[i] EXCEPT !.expiresIn = Max(@ - 1, -1)]]
  /\ peers' = [id \in DOMAIN peers |->
                 [peers[id] EXCEPT !.age =
                    IF @ > PeerInactiveAfter THEN @ ELSE @ + 1]]
  /\ firstSeenIn' = [k \in DOMAIN firstSeenIn |-> Max(firstSeenIn[k] - 1, 0)]
  /\ lastHeard' = [id \in DOMAIN lastHeard |->
                     IF lastHeard[id] > PeerInactiveAfter THEN lastHeard[id]
                     ELSE lastHeard[id] + 1]
  /\ UNCHANGED <<isRunning, ctx, cancelled, starts, stopped, loops,
                 incomingMessages, outgoingMessages, batteryMode,
                 coverTraffic, delegateLog, injected>>
  /\ UNCHANGED nonMeshVars

\* The service is started and left running while time passes.
NextMesh ==
  \/ \E ok \in BOOLEAN : MeshStart(ok)
  \/ \E l \in Loops : LoopEnterSelect(l)
  \/ \E l \in Loops : LoopReceive(l)
  \/ \E packet \in InjectablePackets : Inject(packet)
  \/ \E l \in Loops, messageID \in MeshIDs, userMessageID \in MeshIDs :
       LoopHandleIncoming(l, messageID, userMessageID)
  \/ \E l \in Loops : LoopSend(l)
  \/ \E l \in Loops : LoopHandleOutgoing(l)
  \/ \E l \in Loops, lucky \in BOOLEAN : LoopHandleTick(l, lucky)
  \/ SeenCleanup
  \/ MeshTimePasses

\* The steps of loop goroutine l that the scheduler takes when it can
LoopStep(l) ==
  \/ LoopEnterSelect(l)
  \/ LoopSend(l)
  \/ LoopHandleOutgoing(l)
  \/ \E lucky \in BOOLEAN : LoopHandleTick(l, lucky)
  \/ \E messageID \in MeshIDs, userMessageID \in MeshIDs :
       LoopHandleIncoming(l, messageID, userMessageID)

\* The service is started and stopped, within one instant.
NextMeshStop ==
  \/ \E ok \in BOOLEAN : MeshStart(ok)
  \/ MeshStop
  \/ \E l \in Loops : LoopExit(l)
  \/ \E l \in Loops : LoopReceive(l)
  \/ \E packet \in InjectablePackets : Inject(packet)
  \/ \E l \in Loops : LoopStep(l)

\* A goroutine that can run does run, a select with a ready case takes one,
\* and a select whose Done case is ready again and again takes it: the
\* runtime picks among the ready cases at random.
MeshFairness ==
  \A l \in Loops :
    /\ WF_vars(LoopStep(l))
    /\ WF_vars(LoopReceive(l))
    /\ SF_vars(LoopExit(l))

(***************************************************************************)
(* LinuxMeshProvider: SendPacket and sendFragmentedPacket                  *)
(*                                                                         *)
(* The encoded packet is known by its length; a slice data[offset:end] of  *)
(* it is known by offset and end.                                          *)
(***************************************************************************)
FragmentIDs == {"f1", "f2"}
RecipientKinds == {"nil", "broadcast", "peer"}

\* byte(n) of an int
Byte(n) == n % 256

\* len(Encode(packet)): what Encode writes for a packet with ids, payload
\* and signature of the given lengths.
EncodedLen(senderLen, recipientLen, payloadLen, signatureLen) ==
  1 + 1 + (1 + senderLen) + (1 + recipientLen) + 8 + (4 + payloadLen)
    + (1 + signatureLen) + 1

\* len(packet.RecipientID)
RecipientLen(kind) == IF kind = "nil" THEN 0 ELSE DeviceIDLen

IsDirectedPacket(kind) == kind = "peer"

\* The lengths of the encoded packets handed to SendPacket.
DataSizes ==
  {MaxPacketSize, MaxPacketSize + 1}
    \cup UNION {{(k - 1) * MaxFragmentPayloadSize + 1,
                 k * MaxFragmentPayloadSize} : k \in {2, 3, MaxFragments}}

NoSend ==
  [pc |-> "none", size |-> 0, recipient |-> "nil", fragmentID |-> "",
   numFragments |-> 0, i |-> 0]

\* No call of SendPacket.
InitFragSendIdle ==
  /\ fragSend = NoSend
  /\ sentData = <<>>

\* SendPacket is called with a packet of some encoded length.
InitFragSend ==
  /\ fragSend \in {[NoSend EXCEPT !.pc = "ready", !.size = n,
                                  !.recipient = r] :
                     n \in DataSizes, r \in RecipientKinds}
  /\ sentData = <<>>

\* What the adapter is handed: SendData(data, recipient) or
\* BroadcastData(data).
Wire(type, fragmentID, index, total, offset, end, size, directed) ==
  [type |-> type, fragmentID |-> fragmentID, index |-> index,
   total |-> total, offset |-> offset, end |-> end, size |-> size,
   directed |-> directed]

\* SendPacket up to the first send: a packet of at most MaxPacketSize bytes
\* is sent whole (ok: the adapter's result), a larger one enters
\* sendFragmentedPacket.
SendPacket(ok) ==
  /\ fragSend.pc = "ready"
  /\ IF fragSend.size > MaxPacketSize
     THEN /\ \E id \in FragmentIDs :
               fragSend' =
                 [fragSend EXCEPT
                    !.pc = "fragmenting",
                    !.fragmentID = id,
                    !.numFragments =
                      (fragSend.size + MaxFragmentPayloadSize - 1)
                        \div MaxFragmentPayloadSize]
          /\ UNCHANGED sentData
     ELSE /\ fragSend' = [fragSend EXCEPT
                            !.pc = IF ok THEN "done" ELSE "failed"]
          /\ sentData' =
               IF ok
               THEN Append(sentData,
                           Wire("Packet", "", 0, 0, 0, fragSend.size,
                                fragSend.size,
                                IsDirectedPacket(fragSend.recipient)))
               ELSE sentData
  /\ UNCHANGED nonFragSendVars

FragType(i, numFragments) ==
  IF i = 0 THEN "FragmentStart"
  ELSE IF i = numFragments - 1 THEN "FragmentEnd"
  ELSE "FragmentContinue"

\* The fragment of iteration i of sendFragmentedPacket's loop.
FragmentOf(send, i) ==
  LET offset == i * MaxFragmentPayloadSize
      end == IF offset + MaxFragmentPayloadSize > send.size
             THEN send.size
             ELSE offset + MaxFragmentPayloadSize
      fragPayloadLen == 6 + end - offset
  IN Wire(FragType(i, send.numFragments), send.fragmentID, Byte(i),
          Byte(send.numFragments), offset, end,
          EncodedLen(DeviceIDLen, RecipientLen(send.recipient),
                     fragPayloadLen, 0),
          IsDirectedPacket(send.recipient))

\* One iteration of sendFragmentedPacket's loop; ok is the adapter's result.
SendFragment(ok) ==
  /\ fragSend.pc = "fragmenting"
  /\ fragSend.i < fragSend.numFragments
  /\ IF ok
     THEN /\ sentData' = Append(sentData, FragmentOf(fragSend, fragSend.i))
          /\ fragSend' =
               [fragSend EXCEPT
                  !.i = @ + 1,
                  !.pc = IF fragSend.i + 1 < fragSend.numFragments
                         THEN "fragmenting" ELSE "done"]
     ELSE /\ fragSend' = [fragSend EXCEPT !.pc = "failed"]
          /\ UNCHANGED sentData
  /\ UNCHANGED nonFragSendVars

NextFragSend ==
  \/ \E ok \in BOOLEAN : SendPacket(ok)
  \/ \E ok \in BOOLEAN : SendFragment(ok)

(***************************************************************************)
(* FragmentManager                                                         *)
(***************************************************************************)
\* The encoding of the fragmented packet and its slices: the data of the
\* fragments with index 0..NumSlices-1.
SliceOf(index) == <<2 * index + 1, 2 * index + 2>>

\* The data of the fragment the transport delivers with an index: a slice
\* of the packet, or a foreign byte for an index the packet does not have.
FragmentData(index) == IF index < NumSlices THEN SliceOf(index) ELSE <<0>>

\* The total a delivered fragment carries.
FragmentTotals == {NumSlices - 1, NumSlices}

NoResult ==
  [id |-> "", index |-> 0, total |-> 0, complete |-> FALSE,
   reassembled |-> <<>>, repeated |-> FALSE]

InitFragments ==
  /\ fragments = [k \in {} |-> 0]
  /\ startTime = [k \in {} |-> 0]
  /\ totalFrags = [k \in {} |-> 0]
  /\ addResult = NoResult

\* reassemblePacket: the data of the indices 0..total-1 that are present,
\* in index order.
RECURSIVE ReassembleFrom(_, _, _)
ReassembleFrom(slot, i, total) ==
  IF i >= total THEN <<>>
  ELSE (IF i \in DOMAIN slot THEN slot[i] ELSE <<>>)
         \o ReassembleFrom(slot, i + 1, total)

ReassemblePacket(slot, total) == ReassembleFrom(slot, 0, total)

\* cleanupOldFragments: the ids it deletes.
OldFragments(times) == {id \in DOMAIN times : times[id] > FragmentTimeout}

\* A fragment manager that reports a slot complete as soon as the fragment
\* with the last index arrives.
AddFragment_CompleteOnLast(fragmentID, index, total) ==
  LET data == FragmentData(index)
      exists == fragmentID \in DOMAIN fragments
      slotTotal == IF exists THEN totalFrags[fragmentID] ELSE total
      slot == MapPut(IF exists THEN fragments[fragmentID]
                     ELSE [k \in {} |-> 0], index, data)
      \* this call, or one of the calls for this id just before it, brought
      \* an index the slot already held
      repeated == \/ exists /\ index \in DOMAIN fragments[fragmentID]
                  \/ /\ exists
                     /\ addResult.id = fragmentID
                     /\ addResult.repeated
  IN IF index = slotTotal - 1
     THEN /\ fragments' = MapDelete(fragments, fragmentID)
          /\ startTime' = MapDelete(startTime, fragmentID)
          /\ totalFrags' = MapDelete(totalFrags, fragmentID)
          /\ addResult' =
               [id |-> fragmentID, index |-> index, total |-> total,
                complete |-> TRUE,
                reassembled |-> ReassemblePacket(slot, slotTotal),
                repeated |-> repeated]
          /\ UNCHANGED nonFragmentVars
     ELSE /\ fragments' = MapPut(fragments, fragmentID, slot)
          /\ startTime' = IF exists THEN startTime
                          ELSE MapPut(startTime, fragmentID, 0)
          /\ totalFrags' = MapPut(totalFrags, fragmentID, slotTotal)
          /\ addResult' =
               [id |-> fragmentID, index |-> index, total |-> total,
                complete |-> FALSE, reassembled |-> <<>>,
                repeated |-> repeated]
          /\ UNCHANGED nonFragmentVars

\* AddFragment(fragmentID, index, total, data, isStart, isEnd), with the
\* data that goes with the index.
AddFragment(fragmentID, index, total) ==
  LET data == FragmentData(index)
      exists == fragmentID \in DOMAIN fragments
      \* the maps after the slot is created, if it was not there
      times == IF exists THEN startTime ELSE MapPut(startTime, fragmentID, 0)
      totals == IF exists THEN totalFrags
                ELSE MapPut(totalFrags, fragmentID, total)
      slot == MapPut(IF exists THEN fragments[fragmentID]
                     ELSE [k \in {} |-> 0], index, data)
      \* this call, or one of the calls for this id just before it, brought
      \* an index the slot already held
      repeated == \/ exists /\ index \in DOMAIN fragments[fragmentID]
                  \/ /\ exists
                     /\ addResult.id = fragmentID
                     /\ addResult.repeated
  IN IF Cardinality(DOMAIN slot) = totals[fragmentID]
     THEN /\ fragments' = MapDelete(fragments, fragmentID)
          /\ startTime' = MapDelete(times, fragmentID)
          /\ totalFrags' = MapDelete(totals, fragmentID)
          /\ addResult' =
               [id |-> fragmentID, index |-> index, total |-> total,
                complete |-> TRUE,
                reassembled |-> ReassemblePacket(slot, totals[fragmentID]),
                repeated |-> repeated]
          /\ UNCHANGED nonFragmentVars
     ELSE LET old == OldFragments(times)
          IN /\ fragments' =
                  [k \in ((DOMAIN fragments) \cup {fragmentID}) \ old |->
                     IF k = fragmentID THEN slot ELSE fragments[k]]
             /\ startTime' = [k \in (DOMAIN times) \ old |-> times[k]]
             /\ totalFrags' = [k \in (DOMAIN totals) \ old |-> totals[k]]
             /\ addResult' =
                  [id |-> fragmentID, index |-> index, total |-> total,
                   complete |-> FALSE, reassembled |-> <<>>,
                   repeated |-> repeated]
             /\ UNCHANGED nonFragmentVars

\* 30 s pass.
FragTimePasses ==
  /\ \E id \in DOMAIN startTime : startTime[id] <= FragmentTimeout
  /\ startTime' = [id \in DOMAIN startTime |->
                     IF startTime[id] <= FragmentTimeout
                     THEN startTime[id] + 1 ELSE startTime[id]]
  /\ UNCHANGED <<fragments, totalFrags, addResult>>
  /\ UNCHANGED nonFragmentVars

NextFragments ==
  \/ \E id \in FragmentIDs, index \in 0..MaxFragIndex,
        total \in FragmentTotals : AddFragment(id, index, total)
  \/ FragTimePasses

(***************************************************************************)
(* protocol: Encode, Decode and MessagePadding                             *)
(*                                                                         *)
(* A []byte is a sequence of numbers 0..255 together with whether the      *)
(* slice is nil.                                                           *)
(***************************************************************************)
NilSlice == [nil |-> TRUE, bytes |-> <<>>]
Slice(bs) == [nil |-> FALSE, bytes |-> bs]

\* n bytes with value b
Fill(n, b) == [i \in 1..n |-> b]

\* binary.Write(buf, binary.BigEndian, n) of an unsigned integer of the
\* given width in bytes
RECURSIVE BigEndian(_, _)
BigEndian(n, width) ==
  IF width = 0 THEN <<>>
  ELSE BigEndian(n \div 256, width - 1) \o <<n % 256>>

\* binary.Read(buf, binary.BigEndian, &n)
RECURSIVE BigEndianValue(_)
BigEndianValue(bs) ==
  IF bs = <<>> THEN 0
  ELSE BigEndianValue(SubSeq(bs, 1, Len(bs) - 1)) * 256 + bs[Len(bs)]

BitchatPacket(version, type, senderID, recipientID, timestamp, payload, signature, ttl) ==
  [version |-> version, type |-> type, senderID |-> senderID,
   recipientID |-> recipientID, timestamp |-> timestamp,
   payload |-> payload, signature |-> signature, ttl |-> ttl]

ZeroPacket ==
  BitchatPacket(0, 0, NilSlice, NilSlice, 0, NilSlice, NilSlice, 0)

\* An Encode that writes the signature without its length byte.
Encode_NoSignatureLength(packet) ==
  <<packet.version, packet.type>>
    \o <<Byte(Len(packet.senderID.bytes))>> \o packet.senderID.bytes
    \o (IF ~packet.recipientID.nil
        THEN <<Byte(Len(packet.recipientID.bytes))>>
               \o packet.recipientID.bytes
        ELSE <<0>>)
    \o BigEndian(packet.timestamp, 8)
    \o BigEndian(Len(packet.payload.bytes), 4) \o packet.payload.bytes
    \o packet.signature.bytes
    \o <<packet.ttl>>

\* Encode: the bytes it returns (none of its writes fails).
Encode(packet) ==
  <<packet.version, packet.type>>
    \o <<Byte(Len(packet.senderID.bytes))>> \o packet.senderID.bytes
    \o (IF ~packet.recipientID.nil
        THEN <<Byte(Len(packet.recipientID.bytes))>>
               \o packet.recipientID.bytes
        ELSE <<0>>)
    \o BigEndian(packet.timestamp, 8)
    \o BigEndian(Len(packet.payload.bytes), 4) \o packet.payload.bytes
    \o (IF ~packet.signature.nil
        THEN <<Byte(Len(packet.signature.bytes))>> \o packet.signature.bytes
        ELSE <<0>>)
    \o <<packet.ttl>>

DecodeError(err) == [err |-> err, hasPacket |-> FALSE, packet |-> ZeroPacket]

\* buf holds n more bytes from position pos on (ReadByte, io.ReadFull and
\* binary.Read fail otherwise).
HasBytes(data, pos, n) == pos + n - 1 <= Len(data)

\* A length-prefixed field read at pos: make([]byte, n) and io.ReadFull if
\* n > 0, a nil slice if n = 0.
ReadField(data, pos, n) ==
  IF n > 0 THEN Slice(SubSeq(data, pos, pos + n - 1)) ELSE NilSlice

\* Decode after its length check: the reads from the buffer, in order.
DecodeFields(data) ==
  IF ~HasBytes(data, 1, 3) THEN DecodeError("EOF")
  ELSE
  LET senderIDLen == data[3]
      recipientAt == 4 + senderIDLen
  IN IF ~HasBytes(data, 4, senderIDLen) THEN DecodeError("EOF")
     ELSE IF ~HasBytes(data, recipientAt, 1) THEN DecodeError("EOF")
     ELSE
     LET recipientIDLen == data[recipientAt]
         timestampAt == recipientAt + 1 + recipientIDLen
     IN IF ~HasBytes(data, recipientAt + 1, recipientIDLen)
        THEN DecodeError("EOF")
        ELSE IF ~HasBytes(data, timestampAt, 8 + 4) THEN DecodeError("EOF")
        ELSE
        LET payloadLen == BigEndianValue(SubSeq(data, timestampAt + 8,
                                                timestampAt + 11))
            signatureAt == timestampAt + 12 + payloadLen
        IN IF ~HasBytes(data, timestampAt + 12, payloadLen)
           THEN DecodeError("EOF")
           ELSE IF ~HasBytes(data, signatureAt, 1) THEN DecodeError("EOF")
           ELSE
           LET signatureLen == data[signatureAt]
               ttlAt == signatureAt + 1 + signatureLen
           IN IF ~HasBytes(data, signatureAt + 1, signatureLen)
              THEN DecodeError("EOF")
              ELSE IF ~HasBytes(data, ttlAt, 1) THEN DecodeError("EOF")
              ELSE
              [err |-> "",
               hasPacket |-> TRUE,
               packet |->
                 BitchatPacket(
                   data[1], data[2],
                   ReadField(data, 4, senderIDLen),
                   ReadField(data, recipientAt + 1, recipientIDLen),
                   BigEndianValue(SubSeq(data, timestampAt,
                                         timestampAt + 7)),
                   ReadField(data, timestampAt + 12, payloadLen),
                   ReadField(data, signatureAt + 1, signatureLen),
                   data[ttlAt])]

\* A Decode that reads what is missing at the end of the buffer as zeros.
Decode_ZeroFill(data) == DecodeFields(data \o Fill(16, 0))

Decode(data) ==
  IF Len(data) < 13 THEN DecodeError("ErrBufferTooSmall")
  ELSE DecodeFields(data)

\* MessagePadding.Pad
Pad(data, targetSize) ==
  IF Len(data) >= targetSize THEN data
  ELSE LET paddingNeeded == targetSize - Len(data)
       IN IF paddingNeeded > 255 THEN data
          ELSE [i \in 1..targetSize |->
                  IF i <= Len(data) THEN data[i]
                  ELSE IF i < targetSize THEN Byte(i - 1)
                  ELSE Byte(paddingNeeded)]

\* MessagePadding.Unpad
Unpad(data) ==
  IF Len(data) = 0 THEN data
  ELSE LET paddingLength == data[Len(data)]
       IN IF paddingLength <= 0 \/ paddingLength > Len(data) THEN data
          ELSE SubSeq(data, 1, Len(data) - paddingLength)

blockSizes == <<256, 512, 1024, 2048>>

\* MessagePadding.OptimalBlockSize
OptimalBlockSize(dataSize) ==
  LET totalSize == dataSize + 16
      fits == {i \in DOMAIN blockSizes : totalSize <= blockSizes[i]}
  IN IF fits = {} THEN dataSize
     ELSE blockSizes[CHOOSE i \in fits : \A j \in fits : i <= j]

\* ---- the inputs ----
\* Sender ids, recipient ids and signatures.
FieldLens == {2, MaxFieldLen - 1, MaxFieldLen}
Fields ==
  {NilSlice, Slice(<<>>)} \cup {Slice(Fill(n, 1)) : n \in FieldLens}
Payloads == {NilSlice, Slice(<<>>), Slice(<<104, 105>>), Slice(Fill(300, 7))}
Timestamps == {0, 258, 16777221}
CodecPackets ==
  {BitchatPacket(1, 4, s, r, ts, pl, sig, ttl) :
     s \in Fields, r \in Fields, ts \in Timestamps, pl \in Payloads,
     sig \in Fields, ttl \in {0, 7}}

\* The packets whose encodings are cut short or changed for Decode.
SmallPackets ==
  {BitchatPacket(1, 4, Slice(<<1, 2>>), r, 258, pl, sig, 7) :
     r \in {NilSlice, Slice(<<255, 255>>)},
     pl \in {NilSlice, Slice(<<104, 105>>)},
     sig \in {NilSlice, Slice(<<9>>)}}

\* The proper prefixes of an encoding.
Prefixes(data) == {SubSeq(data, 1, n) : n \in 0..(Len(data) - 1)}

\* Where Encode writes the length of a field (the last byte of it).
LengthAt(packet, field) ==
  LET s == Len(packet.senderID.bytes)
      r == Len(packet.recipientID.bytes)
      pl == Len(packet.payload.bytes)
  IN CASE field = "senderID" -> 3
       [] field = "recipientID" -> 4 + s
       [] field = "payload" -> 4 + s + 1 + r + 8 + 3
       [] field = "signature" -> 4 + s + 1 + r + 8 + 4 + pl

\* An encoding in which one field declares 255 bytes, more than there are.
Overlong(packet, field) ==
  [Encode(packet) EXCEPT ![LengthAt(packet, field)] = 255]

TruncatedInputs ==
  UNION {Prefixes(Encode(p)) : p \in SmallPackets}
    \cup {Overlong(p, f) :
            p \in SmallPackets,
            f \in {"senderID", "recipientID", "payload", "signature"}}

\* The data handed to Pad: n bytes, the last of which is b.
PadLens == {0, 1, 2, MaxPadData - 1, MaxPadData}
PadData ==
  {IF n = 0 THEN <<>> ELSE Fill(n - 1, 65) \o <<b>> :
     n \in PadLens, b \in {0, 1, 65}}
PadTargets(data) ==
  {OptimalBlockSize(Len(data)), Len(data), Len(data) + 1, Len(data) + 255,
   Len(data) + 256}

NoCodecCall == [op |-> "none", stage |-> "done"]

\* No call of the codec.
InitCodecIdle ==
  /\ codecCall = NoCodecCall
  /\ codecPacket = ZeroPacket
  /\ codecData = <<>>
  /\ codecDecoded = DecodeError("")
  /\ padTarget = 0
  /\ padded = <<>>
  /\ unpadded = <<>>

\* One of: a packet for Encode and Decode, bytes for Decode, data and a
\* target size for Pad and Unpad.
InitCodec ==
  /\ codecDecoded = DecodeError("")
  /\ padded = <<>>
  /\ unpadded = <<>>
  /\ \/ /\ codecCall = [op |-> "roundtrip", stage |-> "input"]
        /\ codecPacket \in CodecPackets
        /\ codecData = <<>>
        /\ padTarget = 0
     \/ /\ codecCall = [op |-> "decode", stage |-> "encoded"]
        /\ codecPacket = ZeroPacket
        /\ codecData \in TruncatedInputs
        /\ padTarget = 0
     \/ /\ codecCall = [op |-> "pad", stage |-> "input"]
        /\ codecPacket = ZeroPacket
        /\ codecData \in PadData
        /\ padTarget \in PadTargets(codecData)

EncodeStep ==
  /\ codecCall = [op |-> "roundtrip", stage |-> "input"]
  /\ codecData' = Encode(codecPacket)
  /\ codecCall' = [codecCall EXCEPT !.stage = "encoded"]
  /\ UNCHANGED <<codecPacket, codecDecoded, padTarget, padded, unpadded>>
  /\ UNCHANGED nonCodecVars

DecodeStep ==
  /\ codecCall.op \in {"roundtrip", "decode"}
  /\ codecCall.stage = "encoded"
  /\ codecDecoded' = Decode(codecData)
  /\ codecCall' = [codecCall EXCEPT !.stage = "done"]
  /\ UNCHANGED <<codecPacket, codecData, padTarget, padded, unpadded>>
  /\ UNCHANGED nonCodecVars

PadStep ==
  /\ codecCall = [op |-> "pad", stage |-> "input"]
  /\ padded' = Pad(codecData, padTarget)
  /\ codecCall' = [codecCall EXCEPT !.stage = "padded"]
  /\ UNCHANGED <<codecPacket, codecData, codecDecoded, padTarget, unpadded>>
  /\ UNCHANGED nonCodecVars

UnpadStep ==
  /\ codecCall = [op |-> "pad", stage |-> "padded"]
  /\ unpadded' = Unpad(padded)
  /\ codecCall' = [codecCall EXCEPT !.stage = "done"]
  /\ UNCHANGED <<codecPacket, codecData, codecDecoded, padTarget, padded>>
  /\ UNCHANGED nonCodecVars

NextCodec == EncodeStep \/ DecodeStep \/ PadStep \/ UnpadStep

(***************************************************************************)
(* Two mesh services exchanging messages: SendMessage, the outgoing loop,  *)
(* handleIncomingPacket with handleUserMessage, handleAnnounce and         *)
(* handleDeliveryAck, and the encryption service they call.                *)
(*                                                                         *)
(* A message id (32 hex characters) is a pair of halves of 16 characters.  *)
(* The two channels of a node have room for the packets of an exchange.    *)
(***************************************************************************)
Nodes == {"a", "b"}
Peer(n) == IF n = "a" THEN "b" ELSE "a"
\* The name a node announces.
NickOf(n) == IF n = "a" THEN "alice" ELSE "bob"

\* The values utils.GenerateMessageID can return.
GeneratedIDs == {<<"x1", "x2">>, <<"y1", "y2">>}

\* ---- EncryptionService ----
\* A key as the bytes handed to the encryption service: what they are and
\* how many.
PublicKeyOf(n) == [len |-> 32, key |-> "public", owner |-> n]
SigningKeyOf(n) == [len |-> 32, key |-> "signing", owner |-> n]
\* []byte(peerID): a device id handed over as a key.
IDAsKey(peerID) == [len |-> DeviceIDLen, key |-> "id", owner |-> peerID]

\* A payload is a kind and a value.
Payload(kind, val) == [kind |-> kind, val |-> val]
NoPayload == Payload("none", "")

\* GetCombinedPublicKeyData of node n: 96 bytes.
CombinedPublicKeyData(n) == [len |-> 96, owner |-> n]

\* Encrypt of node n: box.Seal with a fresh nonce.
Encrypt(n, data, publicKey) ==
  IF publicKey.len # 32
  THEN [err |-> "ErrInvalidPublicKey", ciphertext |-> NoPayload]
  ELSE [err |-> "",
        ciphertext |-> Payload("box", [plain |-> data, sealedBy |-> n,
                                       sealedFor |-> publicKey])]

\* Decrypt of node n: box.Open.
Decrypt(n, ciphertext, publicKey, nonceLen) ==
  IF publicKey.len # 32 THEN [err |-> "ErrInvalidPublicKey", plaintext |-> ""]
  ELSE IF nonceLen # 24 THEN [err |-> "nonce", plaintext |-> ""]
  ELSE IF /\ ciphertext.kind = "box"
          /\ ciphertext.val.sealedFor = PublicKeyOf(n)
          /\ publicKey = PublicKeyOf(ciphertext.val.sealedBy)
       THEN [err |-> "", plaintext |-> ciphertext.val.plain]
       ELSE [err |-> "ErrDecryptionFailed", plaintext |-> ""]

\* Sign of node n: ed25519.Sign with its signing key.
Sign(n, data) == [signer |-> n, data |-> data]

\* Verify: TRUE if the key has the size of a signing key and the signature
\* is one of data by its owner.
Verify(signature, data, publicKey) ==
  /\ publicKey.len = 32
  /\ publicKey = SigningKeyOf(signature.signer)
  /\ signature.data = data

\* ---- BluetoothMeshService ----
XPacket(type, sender, recipient, payload, signature, ttl) ==
  [type |-> type, sender |-> sender, recipient |-> recipient,
   payload |-> payload, signature |-> signature, ttl |-> ttl]
NoSignature == [signer |-> "", data |-> NoPayload]

\* The content of a BitchatMessage handed to the delegate: the text, and
\* whether handleUserMessage put the invalid-signature warning before it.
Content(text) == [warning |-> FALSE, text |-> text]
Undecryptable == "[Mensagem criptografada - chave nao disponivel]"

\* A delegate callback.
MessageReceived(id, content, isPrivate, isEncrypted) ==
  [cb |-> "OnMessageReceived", id |-> id, content |-> content,
   isPrivate |-> isPrivate, isEncrypted |-> isEncrypted]
PeerDiscovered(peerID) ==
  [cb |-> "OnPeerDiscovered", id |-> <<peerID>>, content |-> Content(""),
   isPrivate |-> FALSE, isEncrypted |-> FALSE]
MessageDeliveryChanged(id) ==
  [cb |-> "OnMessageDeliveryChanged", id |-> id,
   content |-> Content("Delivered"), isPrivate |-> FALSE,
   isEncrypted |-> FALSE]

InitExchange ==
  /\ xPeers = [n \in Nodes |-> [k \in {} |-> 0]]
  /\ xKeys = [n \in Nodes |-> {}]
  /\ xSeen = [n \in Nodes |-> {}]
  /\ xCache = [n \in Nodes |-> <<>>]
  /\ xIncoming = [n \in Nodes |-> <<>>]
  /\ xOutgoing = [n \in Nodes |-> <<>>]
  /\ xSends = [n \in Nodes |-> <<>>]
  /\ xDelegate = [n \in Nodes |-> <<>>]
  /\ xAnnounced = {}

\* The transport delivers to node n the announce of its peer: the peer's
\* name and combined public key data.
AnnounceArrives(n) ==
  /\ n \notin xAnnounced
  /\ xAnnounced' = xAnnounced \cup {n}
  /\ xIncoming' =
       [xIncoming EXCEPT ![n] =
          Append(@, XPacket("Announce", Peer(n), BroadcastRecipient,
                            Payload("announce",
                                    [name |-> NickOf(Peer(n)),
                                     publicKeyData |->
                                       CombinedPublicKeyData(Peer(n))]),
                            NoSignature, 1))]
  /\ UNCHANGED <<xPeers, xKeys, xSeen, xCache, xOutgoing, xSends, xDelegate>>
  /\ UNCHANGED nonExchangeVars

\* sendKeyExchange of node n: unsigned, TTL 1.
XKeyExchange(n, recipientID, publicKeyData) ==
  XPacket("KeyExchange", n, recipientID, Payload("keys", publicKeyData),
          NoSignature, 1)

\* The lengths of the key data of a KeyExchange the transport delivers:
\* a key bundle, or a single key.
KeyDataLens == {96, 32}
KeyExchangeTag(n) == IF n = "a" THEN "kx-a" ELSE "kx-b"

\* The transport delivers to node n a KeyExchange of its peer.
KeyExchangeArrives(n, len) ==
  /\ KeyExchangeTag(n) \notin xAnnounced
  /\ xAnnounced' = xAnnounced \cup {KeyExchangeTag(n)}
  /\ xIncoming' =
       [xIncoming EXCEPT ![n] =
          Append(@, XKeyExchange(Peer(n), n,
                                 [len |-> len, owner |-> Peer(n)]))]
  /\ UNCHANGED <<xPeers, xKeys, xSeen, xCache, xOutgoing, xSends, xDelegate>>
  /\ UNCHANGED nonExchangeVars

\* The transport delivers to node n a Leave of its peer.
LeaveTag(n) == IF n = "a" THEN "leave-a" ELSE "leave-b"
LeaveArrives(n) ==
  /\ LeaveTag(n) \notin xAnnounced
  /\ xAnnounced' = xAnnounced \cup {LeaveTag(n)}
  /\ xIncoming' =
       [xIncoming EXCEPT ![n] =
          Append(@, XPacket("Leave", Peer(n), BroadcastRecipient,
                            Payload("text", NickOf(Peer(n))), NoSignature,
                            1))]
  /\ UNCHANGED <<xPeers, xKeys, xSeen, xCache, xOutgoing, xSends, xDelegate>>
  /\ UNCHANGED nonExchangeVars

\* Each of the two nodes has registered the other's key bundle.
BothRegistered ==
  \A n \in Nodes :
    /\ Peer(n) \in DOMAIN xPeers[n]
    /\ PublicKeyOf(Peer(n)) \in xKeys[n]

\* findPeerIDByNickname of node n
FindPeerIDByNickname(n, nickname) ==
  LET ids == {id \in DOMAIN xPeers[n] : xPeers[n][id] = nickname}
  IN IF ids = {} THEN "" ELSE CHOOSE id \in ids : TRUE

\* SendMessage of node n; messageID is the value of utils.GenerateMessageID.
SendMessage(n, text, isPrivate, recipientNickname, messageID) ==
  /\ Len(xSends[n]) < MaxSends
  /\ LET peerID == FindPeerIDByNickname(n, recipientNickname)
         encrypted == Encrypt(n, text, IDAsKey(peerID))
         err == IF isPrivate /\ peerID = "" THEN "ErrPeerNotFound"
                ELSE IF isPrivate THEN encrypted.err
                ELSE ""
         payload == IF isPrivate THEN encrypted.ciphertext
                    ELSE Payload("text", text)
         packet == XPacket("Message", n,
                           IF isPrivate THEN peerID ELSE BroadcastRecipient,
                           payload, Sign(n, payload), 7)
     IN /\ xSends' =
             [xSends EXCEPT ![n] =
                Append(@, [text |-> text, isPrivate |-> isPrivate,
                           registered |-> BothRegistered, err |-> err,
                           id |-> IF err = "" THEN messageID ELSE <<>>])]
        /\ xOutgoing' = IF err = ""
                        THEN [xOutgoing EXCEPT ![n] = Append(@, packet)]
                        ELSE xOutgoing
  /\ UNCHANGED <<xPeers, xKeys, xSeen, xCache, xIncoming, xDelegate,
                 xAnnounced>>
  /\ UNCHANGED nonExchangeVars

\* processOutgoingMessages of node n takes a packet, caches it and hands it
\* to the platform provider, which delivers it to the peer.
ProcessOutgoing(n) ==
  /\ xOutgoing[n] # <<>>
  /\ LET packet == Head(xOutgoing[n])
     IN /\ xCache' = [xCache EXCEPT ![n] =
                        AddToMessageCache(@, HashKey(packet.payload), packet,
                                          "self")]
        /\ xIncoming' = [xIncoming EXCEPT ![Peer(n)] = Append(@, packet)]
  /\ xOutgoing' = [xOutgoing EXCEPT ![n] = Tail(@)]
  /\ UNCHANGED <<xPeers, xKeys, xSeen, xSends, xDelegate, xAnnounced>>
  /\ UNCHANGED nonExchangeVars

\* sendDeliveryAck of node n: the payload is the bytes of the message id.
XDeliveryAck(n, messageID, recipientID) ==
  XPacket("DeliveryAck", n, recipientID, Payload("id", messageID),
          Sign(n, Payload("id", messageID)), AckTTL)

\* handleUserMessage of node n: the BitchatMessage handed to the delegate.
UserMessage(n, packet, userMessageID) ==
  LET isPrivate == packet.recipient = n
      decrypted == Decrypt(n, packet.payload, IDAsKey(packet.sender), 0)
      text == IF isPrivate
              THEN IF decrypted.err = "" THEN decrypted.plaintext
                   ELSE Undecryptable
              ELSE packet.payload.val
      valid == Verify(packet.signature, packet.payload,
                      IDAsKey(packet.sender))
  IN MessageReceived(userMessageID,
                     [warning |-> packet.signature # NoSignature /\ ~valid,
                      text |-> text],
                     isPrivate, isPrivate)

\* handleDeliveryAck: payload[:16] of a payload of at least 16 bytes.
AckedID(payload) == SubSeq(payload.val, 1, 1)

\* incomingLoop of node n takes a packet: handleIncomingPacket and the
\* handler of the packet's type.  messageID and userMessageID are the
\* values of the two calls of utils.GenerateMessageID.
HandleIncomingPacket(n, messageID, userMessageID) ==
  /\ xIncoming[n] # <<>>
  /\ LET packet == Head(xIncoming[n])
         accepted == messageID \notin xSeen[n] /\ packet.ttl > 0
         relayed == [packet EXCEPT !.ttl = @ - 1]
         forUs == /\ accepted
                  /\ packet.recipient \in {BroadcastRecipient, n}
         isMessage == /\ forUs
                      /\ packet.type = "Message"
                      /\ packet.sender \in DOMAIN xPeers[n]
         isAnnounce == forUs /\ packet.type = "Announce"
         isAck == forUs /\ packet.type = "DeliveryAck"
         \* handleKeyExchange: AddPeerPublicKey accepts 96 bytes
         isKeyExchange == /\ forUs
                          /\ packet.type = "KeyExchange"
                          /\ packet.payload.val.len = 96
         events ==
           IF isMessage THEN <<UserMessage(n, relayed, userMessageID)>>
           ELSE IF isAnnounce /\ packet.sender \notin DOMAIN xPeers[n]
           THEN <<PeerDiscovered(packet.sender)>>
           ELSE IF isAck
           THEN <<MessageDeliveryChanged(AckedID(packet.payload))>>
           ELSE <<>>
     IN /\ xSeen' = [xSeen EXCEPT ![n] = @ \cup {messageID}]
        /\ xCache' = IF accepted
                     THEN [xCache EXCEPT ![n] =
                             AddToMessageCache(@, IDKey(messageID), relayed,
                                               packet.sender)]
                     ELSE xCache
        /\ xPeers' = IF isAnnounce
                     THEN [xPeers EXCEPT ![n] =
                             MapPut(@, packet.sender, packet.payload.val.name)]
                     ELSE xPeers
        /\ xKeys' = IF \/ /\ isAnnounce
                          /\ packet.payload.val.publicKeyData.len = 96
                       \/ isKeyExchange
                    THEN [xKeys EXCEPT ![n] =
                            @ \cup {PublicKeyOf(packet.sender),
                                    SigningKeyOf(packet.sender)}]
                    ELSE xKeys
        /\ xOutgoing' = IF isMessage
                        THEN [xOutgoing EXCEPT ![n] =
                                Append(@, XDeliveryAck(n, userMessageID,
                                                       packet.sender))]
                        ELSE IF isKeyExchange
                        THEN [xOutgoing EXCEPT ![n] =
                                Append(@, XKeyExchange(
                                            n, packet.sender,
                                            CombinedPublicKeyData(n)))]
                        ELSE xOutgoing
        /\ xDelegate' = [xDelegate EXCEPT ![n] = @ \o events]
  /\ xIncoming' = [xIncoming EXCEPT ![n] = Tail(@)]
  /\ UNCHANGED <<xSends, xAnnounced>>
  /\ UNCHANGED nonExchangeVars

\* Key exchanges and announces between the two nodes.
NextKeyExchange ==
  \/ \E n \in Nodes, len \in KeyDataLens : KeyExchangeArrives(n, len)
  \/ \E n \in Nodes : AnnounceArrives(n)
  \/ \E n \in Nodes : ProcessOutgoing(n)
  \/ \E n \in Nodes, messageID, userMessageID \in GeneratedIDs :
       HandleIncomingPacket(n, messageID, userMessageID)

\* Announces and leaves between the two nodes.
NextLeave ==
  \/ \E n \in Nodes : AnnounceArrives(n)
  \/ \E n \in Nodes : LeaveArrives(n)
  \/ \E n \in Nodes, messageID, userMessageID \in GeneratedIDs :
       HandleIncomingPacket(n, messageID, userMessageID)

NextExchange ==
  \/ \E n \in Nodes : AnnounceArrives(n)
  \/ \E n \in Nodes, isPrivate \in BOOLEAN, messageID \in GeneratedIDs :
       SendMessage(n, "secret", isPrivate, NickOf(Peer(n)), messageID)
  \/ \E n \in Nodes : ProcessOutgoing(n)
  \/ \E n \in Nodes, messageID, userMessageID \in GeneratedIDs :
       HandleIncomingPacket(n, messageID, userMessageID)

(***************************************************************************)
(* The router of node "a" next to its mesh service: the block list on the  *)
(* way out (RoutePacket) and the packets of node "b" on the way in.        *)
(***************************************************************************)
BlockRoutePackets ==
  [sender : Nodes, recipient : Nodes \cup {NoRecipient},
   ttl : {MaxPacketTTL}]

NextBlock ==
  \/ \E packet \in BlockRoutePackets, knownPeers \in SUBSET Nodes :
       RoutePacket(packet, knownPeers)
  \/ \E peerID \in Nodes : BlockPeer(peerID)
  \/ \E peerID \in Nodes : UnblockPeer(peerID)
  \/ AnnounceArrives("a")
  \/ \E messageID \in GeneratedIDs :
       SendMessage("b", "secret", FALSE, NickOf("a"), messageID)
  \/ ProcessOutgoing("b")
  \/ \E messageID, userMessageID \in GeneratedIDs :
       HandleIncomingPacket("a", messageID, userMessageID)

(***************************************************************************)
(* MessageRouter: the routing table and the TTL                            *)
(***************************************************************************)
NoTableCall == [op |-> "none"]

InitTable ==
  /\ observed = <<>>
  /\ tableCall = NoTableCall

RouteDests == {"p1", "p2", "p3"}
NextHops == RouteDests \cup {""}
Metrics == {50, 70, 90}
\* packet.TTL is a uint8.
TTLValues == {0, 1, 2, 3, 255}

TableCalled(call) ==
  [call EXCEPT !.seq = IF tableCall.op = "none" THEN 0 ELSE 1 - tableCall.seq]

\* The map m without the keys in ks.
MapWithout(m, ks) == [x \in DOMAIN m \ ks |-> m[x]]

\* An update that also replaces a route by one of the same metric.
BetterRoute_OrEqual(metrics, peerID, metric) ==
  peerID \notin DOMAIN metrics \/ metric >= metrics[peerID]

\* UpdateRoutingInfo's test: !hasRoute || metric > currentMetric
BetterRoute(metrics, peerID, metric) ==
  peerID \notin DOMAIN metrics \/ metric > metrics[peerID]

\* UpdateRoutingInfo: an empty next hop is a direct connection; the route is
\* installed if there is none or the new metric is better.
UpdateRoutingInfo(peerID, nextHop, metric) ==
  /\ LET hop == IF nextHop = "" THEN peerID ELSE nextHop
     IN IF BetterRoute(routingMetrics, peerID, metric)
        THEN /\ routingTable' = MapPut(routingTable, peerID, hop)
             /\ routingMetrics' = MapPut(routingMetrics, peerID, metric)
        ELSE UNCHANGED <<routingTable, routingMetrics>>
  /\ observed' =
       MapPut(observed, peerID,
              IF peerID \in DOMAIN observed /\ observed[peerID] > metric
              THEN observed[peerID] ELSE metric)
  /\ tableCall' = TableCalled([op |-> "UpdateRoutingInfo", peerID |-> peerID,
                               nextHop |-> nextHop, metric |-> metric,
                               seq |-> 0])
  /\ UNCHANGED <<processedMessages, setTTL, dedupeTime, callers, firstEver,
                 firstSince>>
  /\ UNCHANGED nonTableVars

\* A RemovePeer that also removes the routes through the removed routes.
RECURSIVE RoutesThrough_Transitive(_, _)
RoutesThrough_Transitive(table, peerID) ==
  LET direct == {dest \in DOMAIN table : table[dest] = peerID /\ dest /= peerID}
  IN direct \cup UNION {RoutesThrough_Transitive(MapWithout(table, {peerID}),
                                                 dest) : dest \in direct}

\* RemovePeer's loop: the destinations whose next hop is the peer.
RoutesThrough(table, peerID) == {dest \in DOMAIN table : table[dest] = peerID}

\* RemovePeer: the peer's own route goes, then the routes through it. The
\* history of a destination ends with its route.
RemovePeer(peerID) ==
  /\ LET table == MapWithout(routingTable, {peerID})
         metrics == MapWithout(routingMetrics, {peerID})
         through == RoutesThrough(table, peerID)
     IN /\ routingTable' = MapWithout(table, through)
        /\ routingMetrics' = MapWithout(metrics, through)
  /\ observed' = MapWithout(observed, DOMAIN observed \ DOMAIN routingTable')
  /\ tableCall' = TableCalled([op |-> "RemovePeer", peerID |-> peerID,
                               before |-> DOMAIN routingTable, seq |-> 0])
  /\ UNCHANGED <<processedMessages, setTTL, dedupeTime, callers, firstEver,
                 firstSince>>
  /\ UNCHANGED nonTableVars

\* A test that lets a packet with TTL 1 through.
TTLExhausted_AtZero(ttl) == ttl < 1

\* DecreaseAndCheckTTL's test
TTLExhausted(ttl) == ttl <= 1

\* DecreaseAndCheckTTL: the packet's TTL after the call, and the result.
DecreaseAndCheckTTL(ttl) ==
  /\ tableCall' = TableCalled(
       IF TTLExhausted(ttl)
       THEN [op |-> "DecreaseAndCheckTTL", ttl |-> ttl, after |-> ttl,
             result |-> FALSE, seq |-> 0]
       ELSE [op |-> "DecreaseAndCheckTTL", ttl |-> ttl,
             after |-> (ttl + 255) % 256, result |-> TRUE, seq |-> 0])
  /\ UNCHANGED <<observed, dedupVars>>
  /\ UNCHANGED nonTableVars

(***************************************************************************)
(* MessageRouter: ShouldProcess and the ExpiringSet behind it              *)
(***************************************************************************)
\* Instants are kept relative to time.Now(): an item's expiry as the time left
\* until it (0 at the expiry instant, -1 once Now is after it).
Callers == {"g1", "g2"}
PacketIDs == {"id1", "id2"}
PacketTTLs == {0, 5}
DedupeTimes == {1, 2}

NoCall == [pc |-> "idle", id |-> "", ttl |-> 0, result |-> FALSE,
           raced |-> FALSE]
NoFirst == [left |-> -1, admitted |-> 0]

\* NewMessageRouter: a dedup TTL of 10 minutes, here the longest of
\* DedupeTimes, and empty maps.
InitDedup ==
  /\ processedMessages = <<>>
  /\ setTTL = 2
  /\ dedupeTime = 2
  /\ routingTable = <<>>
  /\ routingMetrics = <<>>
  /\ callers = [c \in Callers |-> NoCall]
  /\ firstEver = [id \in PacketIDs |-> NoFirst]
  /\ firstSince = [id \in PacketIDs |-> NoFirst]

\* An Add whose test lets an item's last instant pass for expired.
Unexpired_UpToExpiry(items, item) == item \in DOMAIN items /\ items[item] > 1

\* ExpiringSet.Add's test: the item exists and its expiry is after now.
Unexpired(items, item) == item \in DOMAIN items /\ items[item] > 0

\* ExpiringSet.Add: what it returns, and the map it leaves.
AddReturns(items, item) == ~Unexpired(items, item)
AddItems(items, item, ttl) ==
  IF Unexpired(items, item) THEN items
  ELSE [k \in DOMAIN items \cup {item} |-> IF k = item THEN ttl ELSE items[k]]

\* History: a presentation of id at this instant, admitted (1) or not (0).
\* The first one opens the id's record; one made within the dedup TTL of the
\* first one counts its admission; a later one is not recorded.
Presented(first, id, admit) ==
  IF first[id] = NoFirst
  THEN [first EXCEPT ![id] = [left |-> setTTL, admitted |-> admit]]
  ELSE IF first[id].left > 0
  THEN [first EXCEPT ![id].admitted = IF @ + admit > 2 THEN 2 ELSE @ + admit]
  ELSE first

\* ShouldProcess, up to the call of Add: a packet with TTL 0 is refused
\* there.
ShouldProcessEnter(c, id, ttl) ==
  /\ callers[c].pc \in {"idle", "done"}
  /\ callers' = [callers EXCEPT ![c] =
       IF ttl = 0
       THEN [pc |-> "done", id |-> id, ttl |-> ttl, result |-> FALSE,
             raced |-> FALSE]
       ELSE [pc |-> "add", id |-> id, ttl |-> ttl, result |-> FALSE,
             raced |-> \E d \in Callers \ {c} :
                         /\ callers[d].pc = "add"
                         /\ callers[d].id = id
                         /\ ~Unexpired(processedMessages, id)]]
  /\ UNCHANGED <<processedMessages, setTTL, dedupeTime, routingTable,
                 routingMetrics, firstEver, firstSince>>
  /\ UNCHANGED nonDedupVars

\* ShouldProcess: processedMessages.Add, under the set's mutex, and the
\* return of its result.
ShouldProcessAdd(c) ==
  /\ callers[c].pc = "add"
  /\ LET id == callers[c].id
         result == AddReturns(processedMessages, id)
         admit == IF result THEN 1 ELSE 0
     IN /\ processedMessages' =
             AddItems(processedMessages, id, setTTL)
        /\ callers' = [callers EXCEPT
             ![c].pc = "done",
             ![c].result = result,
             ![c].raced = @ \/ \E d \in Callers \ {c} :
                                 /\ callers[d].pc = "add"
                                 /\ callers[d].id = id
                                 /\ result]
        /\ firstEver' = Presented(firstEver, id, admit)
        /\ firstSince' = Presented(firstSince, id, admit)
  /\ UNCHANGED <<setTTL, dedupeTime, routingTable, routingMetrics>>
  /\ UNCHANGED nonDedupVars

\* MarkProcessed: the same Add, its result dropped. Marking an id nobody has
\* presented is its first presentation, and its admission.
MarkProcessed(id) ==
  /\ processedMessages' = AddItems(processedMessages, id, setTTL)
  /\ firstEver' =
       Presented(firstEver, id, IF firstEver[id] = NoFirst THEN 1 ELSE 0)
  /\ firstSince' =
       Presented(firstSince, id, IF firstSince[id] = NoFirst THEN 1 ELSE 0)
  /\ UNCHANGED <<setTTL, dedupeTime, routingTable, routingMetrics,
                 callers>>
  /\ UNCHANGED nonDedupVars

\* SetDedupeTime: the entries already in the set keep their expiry.
SetDedupeTime(duration) ==
  /\ dedupeTime' = duration
  /\ setTTL' = duration
  /\ UNCHANGED <<processedMessages, routingTable, routingMetrics,
                 callers, firstEver, firstSince>>
  /\ UNCHANGED nonDedupVars

\* MessageRouter.Clear: new routing maps and an empty set. The history since
\* the last Clear starts again.
MessageRouterClear ==
  /\ routingTable' = <<>>
  /\ routingMetrics' = <<>>
  /\ processedMessages' = <<>>
  /\ firstSince' = [id \in PacketIDs |-> NoFirst]
  /\ observed' = <<>>
  /\ UNCHANGED <<setTTL, dedupeTime, callers, firstEver, tableCall>>
  /\ UNCHANGED nonTableVars

\* ExpiringSet.cleanup, run by the set's ticker: the items whose expiry is
\* before now are deleted.
ExpiringSetCleanup ==
  /\ processedMessages' =
       [k \in {i \in DOMAIN processedMessages :
                 ~(processedMessages[i] < 0)} |-> processedMessages[k]]
  /\ UNCHANGED <<setTTL, dedupeTime, routingTable, routingMetrics,
                 callers, firstEver, firstSince>>
  /\ UNCHANGED nonDedupVars

\* one clock unit passes
Elapse(first) ==
  [id \in PacketIDs |->
     IF first[id].left > 0 THEN [first[id] EXCEPT !.left = @ - 1]
     ELSE first[id]]

DedupTimePasses ==
  /\ processedMessages' =
       [k \in DOMAIN processedMessages |->
          IF processedMessages[k] >= 0 THEN processedMessages[k] - 1 ELSE -1]
  /\ firstEver' = Elapse(firstEver)
  /\ firstSince' = Elapse(firstSince)
  /\ UNCHANGED <<setTTL, dedupeTime, routingTable, routingMetrics, callers>>
  /\ UNCHANGED nonDedupVars

\* The calls on the routing table and on a packet's TTL.
NextTable ==
  \/ \E p \in RouteDests, h \in NextHops, m \in Metrics :
       UpdateRoutingInfo(p, h, m)
  \/ \E p \in RouteDests : RemovePeer(p)
  \/ \E ttl \in TTLValues : DecreaseAndCheckTTL(ttl)
  \/ MessageRouterClear

NextDedup ==
  \/ \E c \in Callers, id \in PacketIDs, ttl \in PacketTTLs :
       ShouldProcessEnter(c, id, ttl)
  \/ \E c \in Callers : ShouldProcessAdd(c)
  \/ \E id \in PacketIDs : MarkProcessed(id)
  \/ \E d \in DedupeTimes : SetDedupeTime(d)
  \/ MessageRouterClear
  \/ ExpiringSetCleanup
  \/ DedupTimePasses

(***************************************************************************)
(* ExpiringSet                                                             *)
(***************************************************************************)
\* A set of its own, called directly. Instants are kept relative to
\* time.Now(), as for the router's set.
SetItems == {"x", "y"}
SetTTLs == {0, 1, 2}

NoSetCall ==
  [op |-> "none", item |-> "", result |-> FALSE, expiry |-> -2, seq |-> 0]
NotMember == -1

\* NewExpiringSet(ttl, cleanupInterval), with the longest of SetTTLs.
InitSet ==
  /\ esItems = <<>>
  /\ esTTL = 2
  /\ esCall = NoSetCall
  /\ esMembers = [i \in SetItems |-> NotMember]

\* The record of a call: its result, and the expiry it found in the map (-2
\* if it found none).
SetCalled(op, item, result) ==
  [op |-> op, item |-> item, result |-> result,
   expiry |-> IF item \in DOMAIN esItems THEN esItems[item] ELSE -2,
   seq |-> 1 - esCall.seq]

\* A cleanup that deletes an item in the last unit of its life.
ExpiredBefore_Soon(left) == left < 2

\* cleanup's test: the item's expiry is before now.
ExpiredBefore(left) == left < 0

\* ExpiringSet.Add. An item that is no member, or whose TTL is over, becomes
\* a member for the TTL.
SetAdd(item) ==
  /\ esItems' = AddItems(esItems, item, esTTL)
  /\ esCall' = SetCalled("Add", item, AddReturns(esItems, item))
  /\ esMembers' = [esMembers EXCEPT ![item] = IF @ <= 0 THEN esTTL ELSE @]
  /\ UNCHANGED esTTL
  /\ UNCHANGED nonSetVars

\* ExpiringSet.Contains
SetContains(item) ==
  /\ esCall' = SetCalled("Contains", item, Unexpired(esItems, item))
  /\ UNCHANGED <<esItems, esTTL, esMembers>>
  /\ UNCHANGED nonSetVars

\* ExpiringSet.Remove
SetRemove(item) ==
  /\ esItems' = [k \in DOMAIN esItems \ {item} |-> esItems[k]]
  /\ esCall' = SetCalled("Remove", item, FALSE)
  /\ esMembers' = [esMembers EXCEPT ![item] = NotMember]
  /\ UNCHANGED esTTL
  /\ UNCHANGED nonSetVars

\* ExpiringSet.Clear
SetClear ==
  /\ esItems' = <<>>
  /\ esCall' = SetCalled("Clear", "", FALSE)
  /\ esMembers' = [i \in SetItems |-> NotMember]
  /\ UNCHANGED esTTL
  /\ UNCHANGED nonSetVars

\* ExpiringSet.UpdateExpiry: an item in the map, expired or not, gets a new
\* expiry.
SetUpdateExpiry(item) ==
  /\ LET exists == item \in DOMAIN esItems
     IN /\ esItems' = IF exists THEN [esItems EXCEPT ![item] = esTTL]
                      ELSE esItems
        /\ esCall' = SetCalled("UpdateExpiry", item, exists)
        /\ esMembers' = IF exists THEN [esMembers EXCEPT ![item] = esTTL]
                        ELSE esMembers
  /\ UNCHANGED esTTL
  /\ UNCHANGED nonSetVars

\* ExpiringSet.SetTTL: the items already in the set keep their expiry.
SetSetTTL(ttl) ==
  /\ esTTL' = ttl
  /\ esCall' = SetCalled("SetTTL", "", FALSE)
  /\ UNCHANGED <<esItems, esMembers>>
  /\ UNCHANGED nonSetVars

\* ExpiringSet.cleanup, run by the ticker.
SetCleanup ==
  /\ esItems' = [k \in {i \in DOMAIN esItems : ~ExpiredBefore(esItems[i])} |->
                   esItems[k]]
  /\ UNCHANGED <<esTTL, esCall, esMembers>>
  /\ UNCHANGED nonSetVars

\* one clock unit passes
SetTimePasses ==
  /\ esItems' = [k \in DOMAIN esItems |->
                   IF esItems[k] >= 0 THEN esItems[k] - 1 ELSE -1]
  /\ esMembers' = [i \in SetItems |->
                     IF esMembers[i] > 0 THEN esMembers[i] - 1
                     ELSE esMembers[i]]
  /\ UNCHANGED <<esTTL, esCall>>
  /\ UNCHANGED nonSetVars

NextSet ==
  \/ \E i \in SetItems : SetAdd(i)
  \/ \E i \in SetItems : SetContains(i)
  \/ \E i \in SetItems : SetRemove(i)
  \/ \E i \in SetItems : SetUpdateExpiry(i)
  \/ \E t \in SetTTLs : SetSetTTL(t)
  \/ SetClear
  \/ SetCleanup
  \/ SetTimePasses

(***************************************************************************)
(* BluetoothMeshService: bms.mutex and the delegate                        *)
(*                                                                         *)
(* The goroutines that take bms.mutex: the incoming loop in               *)
(* addOrUpdatePeer, the maintenance loop in cleanupInactivePeers, and the  *)
(* application calling the service.  A delegate callback runs in the       *)
(* goroutine that invokes it and may call the service.                     *)
(***************************************************************************)
Goroutines == {"incoming", "maintenance", "app"}
ServiceCalls == {"SetBatteryMode", "SetCoverTraffic", "SendMessage"}
DelegatePeers == {"A", "B"}

Idle == [pc |-> "idle", cb |-> "", call |-> "", called |-> FALSE, todo |-> {}]

InitDelegate ==
  /\ mutex = "none"
  /\ goroutines = [g \in Goroutines |-> Idle]
  /\ servicePeers = [k \in {} |-> 0]
  /\ modes = [batteryMode |-> BatteryModeNormal, coverTraffic |-> FALSE]

\* The goroutine is inside a delegate callback.
InCallback(g) == goroutines[g].pc \in {"callback", "locking"}

\* mutex.Lock() and mutex.RLock() return: sync.RWMutex is not reentrant, so
\* neither does while a goroutine, the caller included, holds the write lock.
CanLock == mutex = "none"

\* addOrUpdatePeer of the incoming loop, up to the call of
\* delegate.OnPeerDiscovered, or to its return if the peer is not new.
AddOrUpdatePeerLocked(peerID) ==
  /\ goroutines["incoming"].pc = "idle"
  /\ CanLock
  /\ servicePeers' = MapPut(servicePeers, peerID, 0)
  /\ IF peerID \notin DOMAIN servicePeers
     THEN /\ mutex' = "incoming"
          /\ goroutines' = [goroutines EXCEPT !["incoming"] =
                              [Idle EXCEPT !.pc = "callback",
                                           !.cb = "OnPeerDiscovered"]]
     ELSE UNCHANGED <<mutex, goroutines>>
  /\ UNCHANGED modes
  /\ UNCHANGED nonDelegateVars

\* cleanupInactivePeers of the maintenance loop: mutex.Lock() and the peers
\* the range will delete.
CleanupInactivePeers ==
  /\ goroutines["maintenance"].pc = "idle"
  /\ CanLock
  /\ mutex' = "maintenance"
  /\ goroutines' = [goroutines EXCEPT !["maintenance"] =
                      [Idle EXCEPT !.pc = "cleaning",
                                   !.todo = {id \in DOMAIN servicePeers :
                                               servicePeers[id] > PeerInactiveAfter}]]
  /\ UNCHANGED <<servicePeers, modes>>
  /\ UNCHANGED nonDelegateVars

\* One iteration of the range of cleanupInactivePeers, up to the call of
\* delegate.OnPeerLost; the deferred Unlock when the range is over.
CleanupNext ==
  /\ goroutines["maintenance"].pc = "cleaning"
  /\ LET todo == goroutines["maintenance"].todo
     IN IF todo = {}
        THEN /\ mutex' = "none"
             /\ goroutines' = [goroutines EXCEPT !["maintenance"] = Idle]
             /\ UNCHANGED servicePeers
        ELSE \E id \in todo :
               /\ servicePeers' = MapDelete(servicePeers, id)
               /\ goroutines' = [goroutines EXCEPT !["maintenance"] =
                                   [Idle EXCEPT !.pc = "callback",
                                                !.cb = "OnPeerLost",
                                                !.todo = todo \ {id}]]
               /\ UNCHANGED mutex
  /\ UNCHANGED modes
  /\ UNCHANGED nonDelegateVars

\* The application, or a delegate callback that has not called the service
\* yet, calls SetBatteryMode, SetCoverTraffic or SendMessage of a private
\* message: the goroutine reaches mutex.Lock() (mutex.RLock() in
\* findPeerIDByNickname).
CallsService(g, call) ==
  /\ \/ g = "app" /\ goroutines[g].pc = "idle"
     \/ goroutines[g].pc = "callback" /\ ~goroutines[g].called
  /\ goroutines' = [goroutines EXCEPT ![g].pc = "locking", ![g].call = call]
  /\ UNCHANGED <<mutex, servicePeers, modes>>
  /\ UNCHANGED nonDelegateVars

\* The lock is granted, the call does its work under it and returns.
ServiceCallReturns(g) ==
  /\ goroutines[g].pc = "locking"
  /\ CanLock
  /\ modes' = IF goroutines[g].call = "SetBatteryMode"
              THEN [modes EXCEPT !.batteryMode =
                      IF @ = BatteryModeNormal THEN BatteryModeLow
                      ELSE BatteryModeNormal]
              ELSE IF goroutines[g].call = "SetCoverTraffic"
              THEN [modes EXCEPT !.coverTraffic = ~@]
              ELSE modes
  /\ goroutines' = [goroutines EXCEPT ![g] =
                      IF g = "app" THEN Idle
                      ELSE [@ EXCEPT !.pc = "callback", !.call = "",
                                     !.called = TRUE]]
  /\ UNCHANGED <<mutex, servicePeers>>
  /\ UNCHANGED nonDelegateVars

\* The delegate callback returns: addOrUpdatePeer returns and its deferred
\* Unlock runs; cleanupInactivePeers goes on with its range.
CallbackReturns(g) ==
  /\ goroutines[g].pc = "callback"
  /\ IF g = "incoming"
     THEN /\ mutex' = "none"
          /\ goroutines' = [goroutines EXCEPT ![g] = Idle]
     ELSE /\ goroutines' = [goroutines EXCEPT ![g] =
                              [Idle EXCEPT !.pc = "cleaning",
                                           !.todo = goroutines[g].todo]]
          /\ UNCHANGED mutex
  /\ UNCHANGED <<servicePeers, modes>>
  /\ UNCHANGED nonDelegateVars

\* Five minutes pass.
DelegateTimePasses ==
  /\ \E id \in DOMAIN servicePeers : servicePeers[id] <= PeerInactiveAfter
  /\ servicePeers' = [id \in DOMAIN servicePeers |->
                      IF servicePeers[id] > PeerInactiveAfter
                      THEN servicePeers[id] ELSE servicePeers[id] + 1]
  /\ UNCHANGED <<mutex, goroutines, modes>>
  /\ UNCHANGED nonDelegateVars

NextDelegate ==
  \/ \E peerID \in DelegatePeers : AddOrUpdatePeerLocked(peerID)
  \/ CleanupInactivePeers
  \/ CleanupNext
  \/ \E g \in Goroutines, call \in ServiceCalls : CallsService(g, call)
  \/ \E g \in Goroutines : ServiceCallReturns(g)
  \/ \E g \in Goroutines : CallbackReturns(g)
  \/ DelegateTimePasses

(***************************************************************************)
(* RetryService: the backoff schedule under the configurations a caller    *)
(* can hand to NewRetryService.  Durations are in half seconds.            *)
(***************************************************************************)
\* DefaultRetryConfig
DefaultRetryConfig ==
  [MaxRetries |-> 5, InitialBackoff |-> 10, MaxBackoff |-> 240]

RetryConfigs ==
  [MaxRetries : 2..MaxConfiguredRetries, InitialBackoff : {2, 10, 20},
   MaxBackoff : {40, 120, 240}]

NoBackoffItem == [attempts |-> 0, backoff |-> 0]

InitBackoff ==
  /\ rsConfig = DefaultRetryConfig
  /\ backoffItem = NoBackoffItem

\* NewRetryService(config, sendPacketFunc)
NewRetryService(config) ==
  /\ backoffItem = NoBackoffItem
  /\ rsConfig' = config
  /\ UNCHANGED backoffItem
  /\ UNCHANGED nonBackoffVars

\* AddRetryPacket: the item it creates
BackoffAddRetryPacket ==
  /\ backoffItem = NoBackoffItem
  /\ backoffItem' = [attempts |-> 1, backoff |-> rsConfig.InitialBackoff]
  /\ UNCHANGED rsConfig
  /\ UNCHANGED nonBackoffVars

\* processRetries once NextAttempt has passed: retryMessage for an item with
\* attempts left, handleFailedDelivery for one without.
BackoffProcessRetries ==
  /\ backoffItem /= NoBackoffItem
  /\ backoffItem' =
       IF backoffItem.attempts >= rsConfig.MaxRetries THEN NoBackoffItem
       ELSE [attempts |-> backoffItem.attempts + 1,
             backoff |-> BackoffWith(rsConfig, backoffItem.attempts + 1)]
  /\ UNCHANGED rsConfig
  /\ UNCHANGED nonBackoffVars

NextBackoff ==
  \/ \E config \in RetryConfigs : NewRetryService(config)
  \/ BackoffAddRetryPacket
  \/ BackoffProcessRetries

(***************************************************************************)
(* EncryptionService: the keys of the peers                                *)
(***************************************************************************)
\* The key bundles handed to AddPeerPublicKey: the combined public key data
\* of a node, cut or extended to a length.
BundleLens == {32, 95, 96, 97}
Bundles == [len : BundleLens, owner : Nodes]

IdentityKeyOf(n) == [len |-> 32, key |-> "identity", owner |-> n]

\* The symmetric key AddPeerPublicKey derives (curve25519.ScalarMult, then
\* HKDF) and the one EncryptForPeer computes (box.Precompute).
DerivedKey(publicKey) == [kdf |-> "hkdf", with |-> publicKey]
Precomputed(publicKey) == [kdf |-> "precompute", with |-> publicKey]

NoKeyCall ==
  [op |-> "none", peerID |-> "", len |-> 0, err |-> "", seq |-> 0]

\* NewEncryptionService
InitKeys ==
  /\ peerPublicKeys = <<>>
  /\ peerSigningKeys = <<>>
  /\ peerIdentityKeys = <<>>
  /\ sharedSecrets = <<>>
  /\ keyCall = NoKeyCall
  /\ installed = <<>>

KeyCalled(op, peerID, len, err) ==
  [op |-> op, peerID |-> peerID, len |-> len, err |-> err,
   seq |-> 1 - keyCall.seq]

\* What the service holds for the peer.
HeldFor(public, signing, identity, secrets, peerID) ==
  [public |-> public[peerID], signing |-> signing[peerID],
   identity |-> identity[peerID], secret |-> secrets[peerID]]

\* A size check that lets shorter bundles through.
AcceptedLen_AtMost(len) == len <= 96

\* AddPeerPublicKey: the size check
AcceptedLen(len) == len = 96

\* AddPeerPublicKey(peerID, publicKeyData)
AddPeerPublicKey(peerID, publicKeyData) ==
  IF ~AcceptedLen(publicKeyData.len)
  THEN /\ keyCall' = KeyCalled("AddPeerPublicKey", peerID, publicKeyData.len,
                               "ErrInvalidPublicKey")
       /\ UNCHANGED <<peerPublicKeys, peerSigningKeys, peerIdentityKeys,
                      sharedSecrets, installed>>
       /\ UNCHANGED nonKeyVars
  ELSE /\ peerPublicKeys' =
            MapPut(peerPublicKeys, peerID, PublicKeyOf(publicKeyData.owner))
       /\ peerSigningKeys' =
            MapPut(peerSigningKeys, peerID, SigningKeyOf(publicKeyData.owner))
       /\ peerIdentityKeys' =
            MapPut(peerIdentityKeys, peerID,
                   IdentityKeyOf(publicKeyData.owner))
       /\ sharedSecrets' =
            MapPut(sharedSecrets, peerID,
                   DerivedKey(PublicKeyOf(publicKeyData.owner)))
       /\ keyCall' = KeyCalled("AddPeerPublicKey", peerID, publicKeyData.len,
                               "")
       /\ installed' =
            IF peerID \in DOMAIN installed THEN installed
            ELSE MapPut(installed, peerID,
                        HeldFor(peerPublicKeys', peerSigningKeys',
                                peerIdentityKeys', sharedSecrets', peerID))
       /\ UNCHANGED nonKeyVars

\* EncryptForPeer(data, peerID)
EncryptForPeer(peerID) ==
  /\ IF peerID \notin DOMAIN peerPublicKeys
     THEN /\ keyCall' = KeyCalled("EncryptForPeer", peerID, 0,
                                  "ErrNoSharedSecret")
          /\ UNCHANGED sharedSecrets
     ELSE /\ keyCall' = KeyCalled("EncryptForPeer", peerID, 0, "")
          /\ sharedSecrets' =
               IF peerID \in DOMAIN sharedSecrets THEN sharedSecrets
               ELSE MapPut(sharedSecrets, peerID,
                           Precomputed(peerPublicKeys[peerID]))
  /\ UNCHANGED <<peerPublicKeys, peerSigningKeys, peerIdentityKeys, installed>>
  /\ UNCHANGED nonKeyVars

NextKeys ==
  \/ \E peerID \in Nodes, publicKeyData \in Bundles :
       AddPeerPublicKey(peerID, publicKeyData)
  \/ \E peerID \in Nodes : EncryptForPeer(peerID)

(***************************************************************************)
(* protocol: PacketDataForSignature, and a signed packet on its way        *)
(* through relays.  An Ed25519 signature verifies against the data it was  *)
(* computed over and against no other; it is kept as that data.            *)
(***************************************************************************)
\* PacketDataForSignature(packet)
PacketDataForSignature(packet) ==
  <<packet.version, packet.type>>
    \o packet.senderID.bytes
    \o packet.recipientID.bytes
    \o BigEndian(packet.timestamp, 8)
    \o <<packet.ttl>>
    \o packet.payload.bytes

\* The packets an origin signs: not signed yet, with a TTL to travel on.
UnsignedPackets ==
  {BitchatPacket(1, 4, s, r, ts, pl, NilSlice, ttl) :
     s \in Fields, r \in Fields, ts \in Timestamps, pl \in Payloads,
     ttl \in 0..MaxPacketTTL}

\* The origin is about to sign a packet.
InitCodecSigning ==
  /\ codecCall = [op |-> "sign", stage |-> "input"]
  /\ codecPacket \in UnsignedPackets
  /\ codecData = <<>>
  /\ codecDecoded = DecodeError("")
  /\ padTarget = 0
  /\ padded = <<>>
  /\ unpadded = <<>>

\* The origin signs PacketDataForSignature(packet).
SignStep ==
  /\ codecCall = [op |-> "sign", stage |-> "input"]
  /\ codecData' = PacketDataForSignature(codecPacket)
  /\ codecCall' = [codecCall EXCEPT !.stage = "signed"]
  /\ UNCHANGED <<codecPacket, codecDecoded, padTarget, padded, unpadded>>
  /\ UNCHANGED nonCodecVars

\* A relay passes the packet on (RoutePacket, handleIncomingPacket): it
\* drops a packet without TTL, decrements the TTL and leaves the signature.
RelayStep ==
  /\ codecCall.op = "sign"
  /\ codecCall.stage \in {"signed", "relayed"}
  /\ ~(codecPacket.ttl <= 0)
  /\ codecPacket' = [codecPacket EXCEPT !.ttl = codecPacket.ttl - 1]
  /\ codecCall' = [codecCall EXCEPT !.stage = "relayed"]
  /\ UNCHANGED <<codecData, codecDecoded, padTarget, padded, unpadded>>
  /\ UNCHANGED nonCodecVars

NextSignedRelay == SignStep \/ RelayStep

(***************************************************************************)
(* The message cache on its own: addToMessageCache and                     *)
(* cleanupExpiredMessages, the two writers of bms.messageCache.messages,   *)
(* called in any order while time passes.                                  *)
(***************************************************************************)
CacheKeys == {IDKey(m) : m \in MeshIDs} \cup {HashKey("hi"), HashKey("")}

NoCacheCall == [id |-> IDKey(""), evicted |-> {}, seq |-> 0]

InitCacheCall == cacheCall = NoCacheCall

\* addToMessageCache(messageID, packet, originalSender)
CacheAdd(messageID) ==
  /\ messageCache' =
       AddToMessageCache(messageCache, messageID,
                         Packet("Message", "A", BroadcastRecipient, "hi", 1),
                         "A")
  /\ cacheCall' = [id |-> messageID,
                   evicted |-> CacheIDs(messageCache) \ CacheIDs(messageCache'),
                   seq |-> 1 - cacheCall.seq]
  /\ UNCHANGED nonCacheVars

\* cleanupExpiredMessages
CacheCleanup ==
  /\ messageCache' = CleanupExpiredMessages(messageCache)
  /\ messageCache' /= messageCache
  /\ UNCHANGED cacheCall
  /\ UNCHANGED nonCacheVars

NextCache ==
  \/ \E messageID \in CacheKeys : CacheAdd(messageID)
  \/ CacheCleanup
  \/ MeshTimePasses

(***************************************************************************)
(* platform/linux LinuxMeshProvider: handleFragmentReceived and m.mutex.   *)
(*                                                                         *)
(* The receiver goroutine handles the fragments of one peer; the           *)
(* connection goroutine handles the disconnection of that peer, which      *)
(* takes the same mutex.  Unlock of a sync.RWMutex that is not locked is a *)
(* fatal error of the runtime; Unlock of a mutex another goroutine locked  *)
(* releases it.                                                            *)
(***************************************************************************)
ProviderGoroutines == {"receiver", "connection"}
ReceivedIndices == 0..2
ReceivedTotals == {2, 3}

NoLocks ==
  [locks |-> 0, unlocks |-> 0, notHeld |-> FALSE, underLock |-> FALSE]
NoFragment == [index |-> 0, total |-> 0]

InitProvider ==
  /\ providerMutex = "none"
  /\ providerPc = [g \in ProviderGoroutines |-> "idle"]
  /\ fragmentBuffer = {}
  /\ fragmentMeta = 0
  /\ received = NoFragment
  /\ lockLog = NoLocks

\* m.mutex.Unlock() of a mutex nobody holds: the fatal error of the runtime.
UnlockIsFatal == providerMutex = "none"

\* The log after an Unlock of the receiver.
LoggedUnlock ==
  [lockLog EXCEPT !.unlocks = @ + 1,
                  !.notHeld = @ \/ providerMutex /= "receiver"]

\* handleFragmentReceived is called: DecodeFragment, which fails or returns
\* the index and the total of the fragment.
HandleFragmentReceived(decoded, index, total) ==
  /\ providerPc["receiver"] = "idle"
  /\ lockLog' = NoLocks
  /\ IF decoded
     THEN /\ providerPc' = [providerPc EXCEPT !["receiver"] = "lock"]
          /\ received' = [index |-> index, total |-> total]
     ELSE /\ received' = NoFragment
          /\ UNCHANGED providerPc
  /\ UNCHANGED <<providerMutex, fragmentBuffer, fragmentMeta>>
  /\ UNCHANGED nonProviderVars

\* m.mutex.Lock() and what follows under the lock: the fragment is stored,
\* the metadata created or updated, and the buffer compared with the total.
\* An incomplete buffer is left with the Unlock of the else branch; a
\* complete one is reassembled, deleted and followed by the first Unlock
\* (ReassembleFragments fails when an index below the total is absent).
StoreFragment ==
  /\ providerPc["receiver"] = "lock"
  /\ providerMutex = "none"
  /\ LET buffer == fragmentBuffer \cup {received.index}
         total == IF fragmentMeta = 0 THEN received.total ELSE fragmentMeta
         complete == Cardinality(buffer) = total
         reassembled == \A i \in 0..(total - 1) : i \in buffer
     IN /\ fragmentBuffer' = IF complete /\ reassembled THEN {} ELSE buffer
        /\ fragmentMeta' = IF complete /\ reassembled THEN 0 ELSE total
        /\ providerPc' = [providerPc EXCEPT !["receiver"] =
                            IF complete /\ reassembled THEN "decode"
                            ELSE "idle"]
  /\ lockLog' = [lockLog EXCEPT !.locks = @ + 1, !.unlocks = @ + 1]
  /\ UNCHANGED <<providerMutex, received>>
  /\ UNCHANGED nonProviderVars

\* protocol.DecodePacket of the reassembled data: the return on its error,
\* else the read of m.onPacketReceived.
DecodeReassembled(decoded) ==
  /\ providerPc["receiver"] = "decode"
  /\ providerPc' = [providerPc EXCEPT !["receiver"] =
                      IF decoded THEN "unlock" ELSE "idle"]
  /\ UNCHANGED <<providerMutex, fragmentBuffer, fragmentMeta, received,
                 lockLog>>
  /\ UNCHANGED nonProviderVars

\* The m.mutex.Unlock() before the callback.
UnlockBeforeCallback ==
  /\ providerPc["receiver"] = "unlock"
  /\ lockLog' = LoggedUnlock
  /\ IF UnlockIsFatal
     THEN /\ providerPc' = [g \in ProviderGoroutines |-> "fatal"]
          /\ UNCHANGED providerMutex
     ELSE /\ providerPc' = [providerPc EXCEPT !["receiver"] = "callback"]
          /\ providerMutex' = "none"
  /\ UNCHANGED <<fragmentBuffer, fragmentMeta, received>>
  /\ UNCHANGED nonProviderVars

\* callback(packet, fromPeerID)
PacketReceivedCallback ==
  /\ providerPc["receiver"] = "callback"
  /\ providerPc' = [providerPc EXCEPT !["receiver"] = "idle"]
  /\ lockLog' = [lockLog EXCEPT !.underLock = providerMutex = "receiver"]
  /\ UNCHANGED <<providerMutex, fragmentBuffer, fragmentMeta, received>>
  /\ UNCHANGED nonProviderVars

\* handleConnectionStateChanged(deviceID, false): m.mutex.Lock() and the
\* deletion of the peer's pending fragments.
ConnectionLost ==
  /\ providerPc["connection"] = "idle"
  /\ providerMutex = "none"
  /\ providerMutex' = "connection"
  /\ providerPc' = [providerPc EXCEPT !["connection"] = "locked"]
  /\ fragmentBuffer' = {}
  /\ fragmentMeta' = 0
  /\ UNCHANGED <<received, lockLog>>
  /\ UNCHANGED nonProviderVars

\* handleConnectionStateChanged: its m.mutex.Unlock().
ConnectionUnlock ==
  /\ providerPc["connection"] = "locked"
  /\ IF UnlockIsFatal
     THEN /\ providerPc' = [g \in ProviderGoroutines |-> "fatal"]
          /\ UNCHANGED providerMutex
     ELSE /\ providerPc' = [providerPc EXCEPT !["connection"] = "idle"]
          /\ providerMutex' = "none"
  /\ UNCHANGED <<fragmentBuffer, fragmentMeta, received, lockLog>>
  /\ UNCHANGED nonProviderVars

NextProvider ==
  \/ \E decoded \in BOOLEAN, index \in ReceivedIndices,
        total \in ReceivedTotals :
       HandleFragmentReceived(decoded, index, total)
  \/ StoreFragment
  \/ \E decoded \in BOOLEAN : DecodeReassembled(decoded)
  \/ UnlockBeforeCallback
  \/ PacketReceivedCallback
  \/ ConnectionLost
  \/ ConnectionUnlock

(***************************************************************************)
(* Specifications                                                          *)
(***************************************************************************)
InitOthers ==
  /\ InitRetry /\ InitRouter /\ InitMesh /\ InitExchange /\ InitDedup
  /\ InitTable /\ InitSet /\ InitDelegate /\ InitBackoff /\ InitKeys
  /\ InitCacheCall /\ InitProvider
Init == InitOthers /\ InitFragSendIdle /\ InitFragments /\ InitCodecIdle

SpecRetry == Init /\ [][NextRetry]_vars
SpecRetryLoops == Init /\ [][NextRetryLoops]_vars
SpecRetryReAdd == Init /\ [][NextRetryReAdd]_vars
SpecRouter == Init /\ [][NextRouter]_vars
SpecMesh == Init /\ [][NextMesh]_vars
SpecMeshStop == Init /\ [][NextMeshStop]_vars /\ MeshFairness
\* A call of SendPacket, its packet drawn from the data sizes.
InitSending == InitOthers /\ InitFragSend /\ InitFragments /\ InitCodecIdle
SpecFragSend == InitSending /\ [][NextFragSend]_vars
SpecFragments == Init /\ [][NextFragments]_vars
\* A call of Encode, Decode or Pad, its input drawn from the inputs.
InitCoding == InitOthers /\ InitFragSendIdle /\ InitFragments /\ InitCodec
SpecCodec == InitCoding /\ [][NextCodec]_vars
SpecExchange == Init /\ [][NextExchange]_vars
SpecBlock == Init /\ [][NextBlock]_vars
SpecDedup == Init /\ [][NextDedup]_vars
SpecSet == Init /\ [][NextSet]_vars
SpecTable == Init /\ [][NextTable]_vars
SpecKeyExchange == Init /\ [][NextKeyExchange]_vars
SpecDelegate == Init /\ [][NextDelegate]_vars
SpecBackoff == Init /\ [][NextBackoff]_vars
SpecLeave == Init /\ [][NextLeave]_vars
SpecKeys == Init /\ [][NextKeys]_vars
SpecCache == Init /\ [][NextCache]_vars
SpecProvider == Init /\ [][NextProvider]_vars
\* A packet signed at its origin and relayed.
InitSigning ==
  InitOthers /\ InitFragSendIdle /\ InitFragments /\ InitCodecSigning
SpecSignedRelay == InitSigning /\ [][NextSignedRelay]_vars

(***************************************************************************)
(* Properties of the mesh kernel                                           *)
(***************************************************************************)
\* The incoming loop l finishes handleIncomingPacket's part of an iteration.
HandlesIncoming(l) ==
  /\ l[2] = "incoming"
  /\ loops[l].pc = "handling"
  /\ loops'[l].pc # "handling"

\* The packet loop l handles is a later occurrence of a wire packet whose
\* first occurrence was handled within the seen-set TTL.
IsLaterOccurrence(l) ==
  /\ WireKey(loops[l].item) \in DOMAIN firstSeenIn
  /\ firstSeenIn[WireKey(loops[l].item)] > 0

\* C1: a wire packet (type, sender, recipient, timestamp, payload) handled
\* again within the seen-set TTL of its first occurrence has no effect: no
\* cache insertion, no delegate callback, no peer update, and the handler
\* does not go on to enqueue an acknowledgement.
C1_DuplicateHasNoEffect ==
  [][\A l \in Loops :
       (HandlesIncoming(l) /\ IsLaterOccurrence(l))
         => /\ messageCache' = messageCache
            /\ delegateLog' = delegateLog
            /\ peers' = peers
            /\ loops'[l].pc = "select"]_vars

\* C3: when handleIncomingPacket accepts a packet that was not seen and
\* whose TTL after the decrement is greater than 0, the packet with the
\* decremented TTL is put on the outgoing queue, or the loop is about to
\* put it there.
C3_AcceptedPacketIsRelayed ==
  [][\A l \in Loops :
       (/\ HandlesIncoming(l)
        /\ seenMessages' # seenMessages
        /\ loops[l].item.ttl > 1)
         => LET relayed == [loops[l].item EXCEPT !.ttl = @ - 1]
            IN \/ \E i \in DOMAIN outgoingMessages' :
                    outgoingMessages'[i] = relayed
               \/ /\ loops'[l].pc = "sending"
                  /\ loops'[l].item.packet = relayed]_vars

\* C5: once Stop has returned, each of the three loops of the preceding
\* Start eventually exits.
C5_LoopsExitAfterStop ==
  \A l \in Loops : (l[1] \in stopped) ~> (loops[l].pc = "exited")

(***************************************************************************)
(* Properties of SendPacket                                                *)
(***************************************************************************)
\* ceil(n / MaxFragmentPayloadSize)
CeilFragments(n) ==
  IF n % MaxFragmentPayloadSize = 0
  THEN n \div MaxFragmentPayloadSize
  ELSE n \div MaxFragmentPayloadSize + 1

\* C11: a completed send of an encoded packet of N > 512 bytes has emitted
\* exactly K = ceil(N/480) fragments, in index order 0..K-1, each with
\* total = K, typed FragmentStart, FragmentContinue or FragmentEnd by its
\* index, and their slices in index order make up the encoding.
C11_FragmentedSend ==
  (fragSend.pc = "done" /\ fragSend.size > MaxPacketSize)
    => LET K == CeilFragments(fragSend.size)
       IN /\ Len(sentData) = K
          /\ \A j \in 1..Len(sentData) :
               /\ sentData[j].index = j - 1
               /\ sentData[j].total = K
               /\ sentData[j].type =
                    IF j = 1 THEN "FragmentStart"
                    ELSE IF j = K THEN "FragmentEnd"
                    ELSE "FragmentContinue"
               /\ sentData[j].offset =
                    IF j = 1 THEN 0 ELSE sentData[j - 1].end
               /\ j = K => sentData[j].end = fragSend.size

\* C12: every fragment handed to the adapter is at most MaxPacketSize
\* bytes long.
C12_FragmentSizeBound ==
  \A j \in 1..Len(sentData) :
    sentData[j].type # "Packet" => sentData[j].size <= MaxPacketSize

(***************************************************************************)
(* Properties of the fragment manager                                      *)
(***************************************************************************)
\* The packet's encoding: its slices in index order.
RECURSIVE SlicesFrom(_)
SlicesFrom(i) ==
  IF i >= NumSlices THEN <<>> ELSE SliceOf(i) \o SlicesFrom(i + 1)

\* The slot of id holds nothing but fragments of the packet.
SlotOfPacket(id) ==
  id \in DOMAIN fragments
    => /\ totalFrags[id] = NumSlices
       /\ DOMAIN fragments[id] \subseteq 0..(NumSlices - 1)

\* The indices the slot of id holds.
Present(id) == IF id \in DOMAIN fragments THEN DOMAIN fragments[id] ELSE {}

\* AddFragment is called with the fragment index of the packet, for id.
AddsFragmentOfPacket(id, index) ==
  /\ addResult'.id = id
  /\ addResult'.index = index
  /\ addResult'.total = NumSlices
  /\ <<fragments, addResult>> # <<fragments', addResult'>>

\* C13: when the fragments of a packet (one id, total = K, indices 0..K-1)
\* are fed to AddFragment in any order and with repetitions, AddFragment
\* reports completion exactly on the arrival after which all K indices are
\* present, it returns the slices in index order, and the slot is gone
\* afterwards; every other arrival reports no completion.
C13_ReassemblyOrderIndependent ==
  [][\A id \in FragmentIDs, index \in 0..(NumSlices - 1) :
       (SlotOfPacket(id) /\ AddsFragmentOfPacket(id, index))
         => IF Present(id) \cup {index} = 0..(NumSlices - 1)
            THEN /\ addResult'.complete
                 /\ addResult'.reassembled = SlicesFrom(0)
                 /\ id \notin DOMAIN fragments'
            ELSE /\ ~addResult'.complete
                 /\ addResult'.reassembled = <<>>]_vars

\* A packet was reassembled from fragments that arrived out of order, one
\* of them twice.
C13_Witness ==
  /\ addResult.complete
  /\ addResult.total = NumSlices
  /\ addResult.index # NumSlices - 1
  /\ addResult.repeated
  /\ addResult.reassembled = SlicesFrom(0)

(***************************************************************************)
(* Properties of the codec                                                 *)
(***************************************************************************)
\* Two byte slices with the same bytes, a nil and an empty one included.
SameBytes(a, b) == a.bytes = b.bytes

\* C14: for a packet whose sender id, recipient id and signature are at
\* most 255 bytes long, Decode(Encode(P)) succeeds and returns a packet
\* equal to P in version, type, sender id, recipient id, timestamp,
\* payload, signature and TTL.
C14_CodecRoundTrip ==
  (/\ codecCall = [op |-> "roundtrip", stage |-> "done"]
   /\ Len(codecPacket.senderID.bytes) <= 255
   /\ Len(codecPacket.recipientID.bytes) <= 255
   /\ Len(codecPacket.signature.bytes) <= 255)
    => /\ codecDecoded.err = ""
       /\ codecDecoded.hasPacket
       /\ codecDecoded.packet.version = codecPacket.version
       /\ codecDecoded.packet.type = codecPacket.type
       /\ SameBytes(codecDecoded.packet.senderID, codecPacket.senderID)
       /\ SameBytes(codecDecoded.packet.recipientID, codecPacket.recipientID)
       /\ codecDecoded.packet.timestamp = codecPacket.timestamp
       /\ SameBytes(codecDecoded.packet.payload, codecPacket.payload)
       /\ SameBytes(codecDecoded.packet.signature, codecPacket.signature)
       /\ codecDecoded.packet.ttl = codecPacket.ttl

\* A packet with a 255-byte sender id, a recipient id, a timestamp above
\* 2^24, a payload and a signature went through Encode and Decode.
C14_Witness ==
  /\ codecCall = [op |-> "roundtrip", stage |-> "done"]
  /\ Len(codecPacket.senderID.bytes) = MaxFieldLen - 1
  /\ Len(codecPacket.recipientID.bytes) = 2
  /\ Len(codecPacket.signature.bytes) = 2
  /\ Len(codecPacket.payload.bytes) = 300
  /\ codecPacket.timestamp > 16777216
  /\ codecDecoded.hasPacket

\* C15: Decode returns an error and no packet for every input shorter than
\* 13 bytes and for every input that ends before a declared sender,
\* recipient, payload or signature length is satisfied or before the TTL.
C15_DecodeRejectsTruncated ==
  (codecCall = [op |-> "decode", stage |-> "done"])
    => /\ codecDecoded.err # ""
       /\ ~codecDecoded.hasPacket

\* Decode was handed an input of at least 13 bytes that ends inside a field
\* or before the TTL.
C15_Witness ==
  /\ codecCall = [op |-> "decode", stage |-> "done"]
  /\ Len(codecData) >= 13
  /\ codecDecoded.err = "EOF"

\* C16: Unpad(Pad(d, t)) = d for every payload d and target size t, the
\* cases in which Pad returns d as it is included.
C16_UnpadInvertsPad ==
  (codecCall = [op |-> "pad", stage |-> "done"]) => unpadded = codecData

(***************************************************************************)
(* Properties of an exchange between two mesh services                     *)
(***************************************************************************)
\* The ids SendMessage returned to node n.
SentIDs(n) ==
  {xSends[n][i].id : i \in {j \in DOMAIN xSends[n] : xSends[n][j].err = ""}}

\* C17: the message id a node's delegate receives with
\* OnMessageDeliveryChanged (the first 16 bytes of the payload of the
\* DeliveryAck its peer sent) is the id SendMessage returned to that node.
C17_AckIdentifiesMessage ==
  \A n \in Nodes :
    \A i \in DOMAIN xDelegate[n] :
      xDelegate[n][i].cb = "OnMessageDeliveryChanged"
        => xDelegate[n][i].id \in SentIDs(n)

\* C18: once both nodes have registered each other's key bundle, a
\* SendMessage of a private message succeeds, and the private message the
\* peer's delegate receives has the original plaintext as its content,
\* without a marker, and is private and encrypted.
C18_PrivateRoundTrip ==
  BothRegistered
    => \A n \in Nodes :
         /\ \A i \in DOMAIN xSends[n] :
              (xSends[n][i].isPrivate /\ xSends[n][i].registered)
                => xSends[n][i].err = ""
         /\ \A i \in DOMAIN xDelegate[n] :
              (/\ xDelegate[n][i].cb = "OnMessageReceived"
               /\ xDelegate[n][i].isPrivate)
                => /\ xDelegate[n][i].content = Content("secret")
                   /\ xDelegate[n][i].isEncrypted

(***************************************************************************)
(* Properties of the block list                                            *)
(***************************************************************************)
\* RoutePacket is called.
RoutePacketCalled ==
  /\ routeInput'.called
  /\ blockedPeersMap' = blockedPeersMap
  /\ <<routeInput, routeSends>> # <<routeInput', routeSends'>>

\* The egress half of C19: RoutePacket invokes the send function for no
\* packet whose sender or recipient is blocked, and sends no copy to a
\* blocked peer.
BlockedOnEgress ==
  RoutePacketCalled
    => \A send \in routeSends' :
         /\ send.packet.sender \notin blockedPeersMap
         /\ send.packet.recipient \notin blockedPeersMap
         /\ send.to \notin blockedPeersMap

\* The ingress half of C19: handling an incoming packet whose sender is
\* blocked invokes no delegate callback.
BlockedOnIngress ==
  (/\ xIncoming["a"] # <<>>
   /\ xIncoming'["a"] = Tail(xIncoming["a"])
   /\ Head(xIncoming["a"]).sender \in blockedPeersMap)
    => xDelegate'["a"] = xDelegate["a"]

\* C19: while a peer id is blocked, a packet whose sender or recipient is
\* that peer is dropped on egress (RoutePacket does not invoke the send
\* function for it and sends no broadcast copy to the blocked peer) and on
\* ingress (handling it does not reach the delegate).
C19_BlockedPeerDropped == [][BlockedOnEgress /\ BlockedOnIngress]_vars

(***************************************************************************)
(* MessageRouter.ShouldProcess                                             *)
(***************************************************************************)
\* A call of ShouldProcess with TTL 0 has returned false.
TTLZeroRefused ==
  \A c \in Callers :
    callers[c].pc = "done" /\ callers[c].ttl = 0 => ~callers[c].result

\* C20 (as stated): ShouldProcess returns true the first time a packet id
\* with TTL > 0 is presented and false for every later presentation of the
\* id within the dedup TTL, so exactly one presentation of the id is admitted
\* in the dedup TTL of its first one, however the callers interleave; a
\* packet with TTL 0 gets false.
C20_ShouldProcessDedup ==
  /\ TTLZeroRefused
  /\ \A id \in PacketIDs :
       firstEver[id] /= NoFirst => firstEver[id].admitted = 1

\* C20 (amended): the same, for the presentations since the set was last
\* emptied by MessageRouter.Clear.
C20_ShouldProcessDedupSinceClear ==
  /\ TTLZeroRefused
  /\ \A id \in PacketIDs :
       firstSince[id] /= NoFirst => firstSince[id].admitted = 1

\* Two callers were inside ShouldProcess with the same new id at once, both
\* have returned, one with true and one with false; another caller's packet
\* with TTL 0 is not needed for it.
C20_Witness ==
  /\ \A c \in Callers : callers[c].pc = "done" /\ callers[c].raced
  /\ callers["g1"].id = callers["g2"].id
  /\ callers["g1"].result /= callers["g2"].result
  /\ firstSince[callers["g1"].id].admitted = 1

(***************************************************************************)
(* ExpiringSet                                                             *)
(***************************************************************************)
\* This step is a call of op on the set.
SetCall(op) == esCall' /= esCall /\ esCall'.op = op

\* C21: Add(x) returns true iff x is no member or its TTL is over, and false
\* while x is a member whose TTL runs; Contains(x) returns true while the TTL
\* since x was last added (or refreshed) runs and false from its end on and
\* after a Remove or Clear, whether cleanup has deleted the entry or not.
C21_ExpiringSetSemantics ==
  [][/\ SetCall("Add") => (esCall'.result <=> esMembers[esCall'.item] <= 0)
     /\ SetCall("Contains") =>
          (esCall'.result <=> esMembers[esCall'.item] > 0)]_vars

\* Contains has returned false for an item past the end of its TTL that
\* cleanup has not deleted.
C21_Witness ==
  /\ esCall.op = "Contains"
  /\ ~esCall.result
  /\ esCall.expiry = -1
  /\ esCall.item \in DOMAIN esItems
  /\ esMembers[esCall.item] = 0

(***************************************************************************)
(* MessageRouter: the routing table and the TTL                            *)
(***************************************************************************)
\* This step is a call of op.
TableCall(op) == tableCall' /= tableCall /\ tableCall'.op = op

\* The route to dest: its next hop and its metric, or none.
RouteTo(table, metrics, dest) ==
  <<IF dest \in DOMAIN table THEN <<table[dest]>> ELSE <<>>,
    IF dest \in DOMAIN metrics THEN <<metrics[dest]>> ELSE <<>>>>

\* Every destination with a route has a metric, the largest one observed for
\* it since its route was last removed.
StoredIsLargestObserved ==
  /\ DOMAIN routingMetrics = DOMAIN routingTable
  /\ DOMAIN observed = DOMAIN routingTable
  /\ \A dest \in DOMAIN routingTable : routingMetrics[dest] = observed[dest]

\* C22: UpdateRoutingInfo(dest, nextHop, m) installs (nextHop, m), an empty
\* nextHop standing for dest, iff there is no route to dest or m is strictly
\* greater than the stored metric, and otherwise leaves the route to dest as
\* it is; the stored metric of a destination is always the largest metric
\* observed for it since its route was last removed.
C22_BestMetricRouting ==
  [][/\ TableCall("UpdateRoutingInfo") =>
          LET dest == tableCall'.peerID
              m == tableCall'.metric
              hop == IF tableCall'.nextHop = "" THEN dest
                     ELSE tableCall'.nextHop
          IN IF dest \notin DOMAIN routingTable \/ m > routingMetrics[dest]
             THEN RouteTo(routingTable', routingMetrics', dest) =
                    <<(<<hop>>), (<<m>>)>>
             ELSE RouteTo(routingTable', routingMetrics', dest) =
                    RouteTo(routingTable, routingMetrics, dest)
     /\ StoredIsLargestObserved']_vars

\* UpdateRoutingInfo was called with a worse metric and another next hop for
\* a destination that keeps its route.
C22_Witness ==
  /\ tableCall.op = "UpdateRoutingInfo"
  /\ tableCall.peerID \in DOMAIN routingTable
  /\ tableCall.metric < routingMetrics[tableCall.peerID]
  /\ tableCall.nextHop \notin {"", routingTable[tableCall.peerID]}

\* C23: RemovePeer(p) removes the route to p and every route whose next hop
\* is p, and leaves every other route, its next hop and its metric, as it is.
C23_RemovePeerFrame ==
  [][TableCall("RemovePeer") =>
       LET p == tableCall'.peerID
           kept == {dest \in DOMAIN routingTable :
                      dest /= p /\ routingTable[dest] /= p}
       IN /\ routingTable' = [dest \in kept |-> routingTable[dest]]
          /\ routingMetrics' = [dest \in kept |-> routingMetrics[dest]]]_vars

\* RemovePeer has removed the peer's route and a route through it, and has
\* kept a route whose next hop lost its own route.
C23_Witness ==
  /\ tableCall.op = "RemovePeer"
  /\ tableCall.peerID \in tableCall.before
  /\ Cardinality(tableCall.before \ DOMAIN routingTable) = 2
  /\ \E dest \in DOMAIN routingTable :
       routingTable[dest] \in tableCall.before \ DOMAIN routingTable

\* C24: for a packet with TTL > 1 DecreaseAndCheckTTL decrements the TTL by
\* exactly 1 and returns true; for a packet with TTL <= 1 it returns false
\* and leaves the TTL as it is; a packet for which it returned true has
\* TTL >= 1 afterwards.
C24_DecreaseAndCheckTTL ==
  tableCall.op = "DecreaseAndCheckTTL" =>
    /\ tableCall.ttl > 1 =>
          tableCall.result /\ tableCall.after = tableCall.ttl - 1
    /\ tableCall.ttl <= 1 =>
          ~tableCall.result /\ tableCall.after = tableCall.ttl
    /\ tableCall.result => tableCall.after >= 1

\* DecreaseAndCheckTTL has returned true for a packet with TTL 2, now 1.
C24_Witness ==
  /\ tableCall.op = "DecreaseAndCheckTTL"
  /\ tableCall.ttl = 2
  /\ tableCall.result
  /\ tableCall.after = 1

(***************************************************************************)
(* KeyExchange                                                             *)
(***************************************************************************)
\* This step is handleIncomingPacket of node n for a KeyExchange.
HandlesKeyExchange(n) ==
  /\ xIncoming[n] /= <<>>
  /\ xIncoming'[n] = Tail(xIncoming[n])
  /\ Head(xIncoming[n]).type = "KeyExchange"

\* Node n knows the peer: it has it in its peers or holds its key.
KnownTo(n, peerID) ==
  peerID \in DOMAIN xPeers[n] \/ PublicKeyOf(peerID) \in xKeys[n]

\* C25: a node that receives a KeyExchange of a peer it already knows sends
\* no KeyExchange back, so two nodes holding each other's keys stop
\* answering each other.
C25_KeyExchangeReplyOnlyToNew ==
  [][\A n \in Nodes :
       HandlesKeyExchange(n) /\ KnownTo(n, Head(xIncoming[n]).sender) =>
         xOutgoing'[n] = xOutgoing[n]]_vars

(***************************************************************************)
(* RetryService: sends after delivery, and the expiry timers               *)
(***************************************************************************)
\* This step is retryMessage of loop k for the collected item ref: the item
\* leaves the loop's slice and its packet is handed to the send function.
SendsFor(k, ref) ==
  /\ ref \in itemsToRetry[k]
  /\ itemsToRetry'[k] = itemsToRetry[k] \ {ref}

\* MarkDelivered has reported the entry g delivered to its callback.
ReportedDelivered(g) ==
  \E i \in 1..Len(cbLog[g]) : cbLog[g][i].status = "Delivered"

\* C26: once MarkDelivered has returned for an entry (here: one with a
\* completion callback, which has been told so), the retry service does not
\* invoke the send function for it again, also when a retry tick had
\* already selected the entry for resending.
C26_NoSendAfterDelivery ==
  [][\A k \in RetryLoops : \A ref \in itemsToRetry[k] :
       SendsFor(k, ref) => ~ReportedDelivered(ref.gen)]_vars

\* This step is the expiry goroutine t failing the entry pending under its
\* id.
TimesOut(t) ==
  /\ timers' = timers \ {t}
  /\ t.id \in DOMAIN retryItems
  /\ t.id \notin DOMAIN retryItems'

\* C27: an entry is failed for time-out only when MaxRetryTime has passed
\* since it was added (its own expiry timer is due), also when an earlier
\* entry with the same packet id was added and completed.
C27_RetryTimePerEntry ==
  [][\A t \in timers :
       TimesOut(t) =>
         \A u \in timers : u.gen = retryItems[t.id].gen => u.dueIn = 0]_vars


\* The step is a call of AddFragment that reports the slot of id complete.
CompletesSlot(id) ==
  /\ id \in DOMAIN fragments
  /\ id \notin DOMAIN fragments'
  /\ addResult'.id = id
  /\ addResult'.complete

\* C28: a slot whose first fragment arrived more than 30 s ago never
\* completes: no fragment arriving for its id yields a reassembled packet.
C28_StaleSlotNeverCompletes ==
  [][\A id \in DOMAIN startTime :
       startTime[id] > FragmentTimeout => ~CompletesSlot(id)]_vars

\* The indices the slot of id holds once the fragment of the step is stored.
IndicesAfter(id) == (DOMAIN fragments[id]) \cup {addResult'.index}

\* C29: when AddFragment reports a slot of total T complete, every index
\* 0..T-1 is present in it.
C29_CompleteHasAllIndices ==
  [][\A id \in DOMAIN fragments :
       CompletesSlot(id) =>
         \A i \in 0..(totalFrags[id] - 1) : i \in IndicesAfter(id)]_vars


\* The maintenance loop removes the peer and tells the delegate it is lost.
PeerLost(id) ==
  /\ id \in DOMAIN peers
  /\ id \notin DOMAIN peers'
  /\ Count(delegateLog', OnPeerLost(id)) > Count(delegateLog, OnPeerLost(id))

\* C30: the maintenance loop removes a peer, and calls OnPeerLost for it,
\* only if no packet of the peer (an Announce or a Message it has handled)
\* was received during the last 10 minutes: the last one is at least 10
\* minutes old.
C30_PeerLostOnlyWhenSilent ==
  [][\A id \in DOMAIN peers :
       PeerLost(id) => lastHeard[id] >= PeerInactiveAfter]_vars

(***************************************************************************)
(* Mesh kernel: creation of peers                                          *)
(***************************************************************************)
\* This step is handleIncomingPacket of node n for a KeyExchange that
\* handleKeyExchange accepted: the reply to it is queued.
AcceptsKeyExchange(n) ==
  /\ HandlesKeyExchange(n)
  /\ xOutgoing'[n] /= xOutgoing[n]

\* The calls of OnPeerDiscovered(peerID) node n's delegate has received.
Discoveries(n, peerID) ==
  Cardinality({i \in DOMAIN xDelegate[n] :
                 xDelegate[n][i] = PeerDiscovered(peerID)})

\* C31: a node that handles the first KeyExchange (or Announce) of a sender
\* has the sender in its peer table afterwards; OnPeerDiscovered is called
\* once when the entry is created and not while it is there.
C31_PeerCreatedOnFirstSight ==
  [][\A n \in Nodes :
       /\ AcceptsKeyExchange(n) =>
            Head(xIncoming[n]).sender \in DOMAIN xPeers'[n]
       /\ \A peerID \in Nodes :
            Discoveries(n, peerID)' =
              Discoveries(n, peerID)
                + IF peerID \in DOMAIN xPeers'[n] /\ peerID \notin DOMAIN xPeers[n]
                  THEN 1 ELSE 0]_vars

(***************************************************************************)
(* Mesh kernel: the delegate under bms.mutex                               *)
(***************************************************************************)
\* C32: a delegate callback that calls back into the service does not
\* deadlock: no goroutine waits for bms.mutex while it holds it itself,
\* because no callback is invoked with the mutex held.
C32_CallbackDoesNotDeadlock ==
  \A g \in Goroutines :
    goroutines[g].pc = "locking" => mutex /= g

(***************************************************************************)
(* RetryService: the backoff schedule                                      *)
(***************************************************************************)
\* This step is retryMessage for the item.
Retried ==
  /\ backoffItem.attempts > 0
  /\ backoffItem'.attempts = backoffItem.attempts + 1

\* The smaller of MaxBackoff and InitialBackoff * n * BackoffFactor.
Limited(n) ==
  LET b == (rsConfig.InitialBackoff * n * BackoffFactorNum)
             \div BackoffFactorDen
  IN IF rsConfig.MaxBackoff < b THEN rsConfig.MaxBackoff ELSE b

C34_SessionKeysWriteOnce ==
  \A peerID \in DOMAIN installed :
    installed[peerID] =
      HeldFor(peerPublicKeys, peerSigningKeys, peerIdentityKeys,
              sharedSecrets, peerID)

\* This step is a call of AddPeerPublicKey with a bundle of len bytes.
AddsBundle(len) ==
  /\ keyCall' /= keyCall
  /\ keyCall'.op = "AddPeerPublicKey"
  /\ keyCall'.len = len

\* C39: AddPeerPublicKey with a bundle that is not 96 bytes long returns
\* ErrInvalidPublicKey and leaves the four key maps as they were.
C39_BundleSizeCheck ==
  [][\A len \in BundleLens \ {96} :
       AddsBundle(len) =>
         /\ keyCall'.err = "ErrInvalidPublicKey"
         /\ UNCHANGED <<peerPublicKeys, peerSigningKeys, peerIdentityKeys,
                        sharedSecrets>>]_vars

\* A bundle of another length was refused for a peer whose keys the service
\* holds.
C39_Witness ==
  /\ keyCall.op = "AddPeerPublicKey"
  /\ keyCall.len /= 96
  /\ keyCall.err = "ErrInvalidPublicKey"
  /\ keyCall.peerID \in DOMAIN peerPublicKeys
  /\ keyCall.peerID \in DOMAIN sharedSecrets

(***************************************************************************)
(* protocol: signatures and relays                                         *)
(***************************************************************************)
\* C35: the signature the origin computed over PacketDataForSignature of the
\* packet verifies against PacketDataForSignature of the packet a receiver
\* sees after one or more relays.
C35_SignatureSurvivesRelay ==
  (codecCall.op = "sign" /\ codecCall.stage = "relayed")
    => PacketDataForSignature(codecPacket) = codecData

(***************************************************************************)
(* SendPacket: the one-byte fields of the fragment header                  *)
(***************************************************************************)
\* C36: the index and the total a fragment carries in its one-byte header
\* fields are its true index and the true number of fragments of the packet.
C36_FragmentHeaderNotWrapped ==
  \A j \in 1..Len(sentData) :
    sentData[j].type # "Packet"
      => /\ sentData[j].total = fragSend.numFragments
         /\ sentData[j].index = j - 1

(***************************************************************************)
(* Mesh kernel: Leave                                                      *)
(***************************************************************************)
\* This step is handleIncomingPacket of node n for a Leave it has not seen.
HandlesLeave(n) ==
  /\ xIncoming[n] /= <<>>
  /\ xIncoming'[n] = Tail(xIncoming[n])
  /\ Head(xIncoming[n]).type = "Leave"
  /\ Head(xIncoming[n]).ttl > 0
  /\ xSeen'[n] /= xSeen[n]

PeerLeft(peerID) ==
  [cb |-> "OnPeerLost", id |-> <<peerID>>, content |-> Content(""),
   isPrivate |-> FALSE, isEncrypted |-> FALSE]

\* C37: a node that receives a Leave of a peer in its table removes the peer
\* at once and calls OnPeerLost for it.
C37_LeaveRemovesPeer ==
  [][\A n \in Nodes :
       (HandlesLeave(n) /\ Head(xIncoming[n]).sender \in DOMAIN xPeers[n])
         => /\ Head(xIncoming[n]).sender \notin DOMAIN xPeers'[n]
            /\ xDelegate'[n] =
                 Append(xDelegate[n], PeerLeft(Head(xIncoming[n]).sender))]_vars

(***************************************************************************)
(* Mesh kernel: the bound of the message cache                             *)
(***************************************************************************)
\* The ids of the cache, oldest arrival first.
IDsByArrival(cache) == [i \in DOMAIN cache |-> cache[i].id]

\* This step is addToMessageCache for the id.
AddsToCache(id) == cacheCall' /= cacheCall /\ cacheCall'.id = id

\* C38: the cache never holds more than maxSize messages; adding a new id
\* to a full cache evicts the entry with the oldest arrival time and no
\* other, and adding an id that is cached changes nothing.
C38_MessageCacheBound ==
  [][/\ Len(messageCache') <= DefaultMessageCacheSize
     /\ \A id \in CacheKeys :
          AddsToCache(id) =>
            IF id \in CacheIDs(messageCache)
            THEN messageCache' = messageCache
            ELSE IF Len(messageCache) >= DefaultMessageCacheSize
            THEN IDsByArrival(messageCache') =
                   Append(Tail(IDsByArrival(messageCache)), id)
            ELSE IDsByArrival(messageCache') =
                   Append(IDsByArrival(messageCache), id)]_vars

\* A full cache after an addition that evicted an entry.
C38_Witness ==
  /\ Len(messageCache) = DefaultMessageCacheSize
  /\ cacheCall.evicted /= {}
  /\ cacheCall.id \in CacheIDs(messageCache)

\* C40: on every path through handleFragmentReceived the provider mutex is
\* released exactly once: the handler never calls Unlock more often than
\* Lock, never unlocks a mutex it does not hold (one that is already
\* unlocked, or one another goroutine has locked since), has released as
\* often as it locked when it returns, and runs the packet-received callback
\* with the mutex released.
C40_UnlocksOncePerLock ==
  /\ lockLog.unlocks <= lockLog.locks
  /\ ~lockLog.notHeld
  /\ ~lockLog.underLock
  /\ providerPc["receiver"] = "idle" => lockLog.unlocks = lockLog.locks

====
